---- MODULE Spec2Model ----
(***************************************************************************)
(* Model of the vn_stock daily pipeline: the partitioned storage writer    *)
(* (src/utils/s3_utils.py, src/load/save_*_to_s3.py) and the orchestrator  *)
(* (scripts/run_daily_pipeline.py).                                        *)
(*                                                                         *)
(* Data abstraction.  A DataFrame is a record                              *)
(*   [present, cols, dt, rows]                                             *)
(* present = FALSE is Python's None; cols is the set of column names; dt   *)
(* is the set of date-like columns whose dtype is datetime64; rows is the  *)
(* sequence of rows.  A row carries one instant [day, tod]: day is a       *)
(* calendar day (NaT for a null), tod is 0 at midnight and 1 for any       *)
(* non-zero time of day.  Every date-like column of a frame holds the      *)
(* row's instant.  Prices, volumes and symbols are not tracked here, so a  *)
(* step that drops rows on their account (dropna, drop_duplicates on a     *)
(* value the rows do not carry) keeps some subsequence of the rows.        *)
(*                                                                         *)
(* The object store maps keys to bodies; it is the set of its             *)
(* [key, body] pairs, and put_object replaces the pair of an equal key.    *)
(***************************************************************************)
EXTENDS Integers, Sequences, FiniteSets, TLC

VARIABLES
    pc,         \* position of the top-level caller (orchestrator or a direct call)
    raw_df,     \* run_daily_pipeline: raw_df
    silver_df,  \* run_daily_pipeline: silver_df
    gold_df,    \* run_daily_pipeline: gold_df
    df,         \* the table object handed to the active writer (aliases the caller's)
    wr,         \* frame of the active writer function (save_* / upload_dataframe_to_s3)
    ub,         \* frame of the active upload_bytes call
    store,      \* the object store: set of [key, body]
    ret,        \* outcome of the last completed top-level call
    exit_code,  \* process exit status: -1 while running, 0 normal, 1 sys.exit(1)
    uid,        \* number of uuid4() values drawn so far
    run_date,   \* run_date of the run
    trace,      \* history: the stages run so far, in order, each with its outcome
    call,       \* history: the arguments of the last writer call
    store0,     \* history: the store when that call was made
    tried,      \* history: keys whose put_object was attempted since that call
    written,    \* history: keys whose put_object succeeded since that call, in order
    runs,       \* number of writer calls that were made before the current one
    vd,         \* a validation call: its dataset, its contract, its mode and its outcome
    bd,         \* a build_stock_price_daily call: its input and its outcome
    cn,         \* a clean_stock_price call on values: its input and its outcome
    ft          \* a fetch_hose_stock_prices call: its inputs, its position, its outcome

hist == <<call, store0, tried, written>>

aux == <<runs, vd, bd, cn, ft>>

vars == <<pc, raw_df, silver_df, gold_df, df, wr, ub, store, ret, exit_code,
          uid, run_date, trace, hist, aux>>

\* ---------------------------------------------------------------- bounds
MaxRows == 2
MaxDay == 2
MaxFail == 4
MaxRetriesArg == 3

\* ---------------------------------------------------------------- constants
\* upload_bytes(..., max_retries: int = 3, ...)
DefaultMaxRetries == 3
\* pandas NaT / null date: groupby and dropna skip it
NaT == 0

\* ---------------------------------------------------------------- data
NoneDF == [present |-> FALSE, cols |-> {}, dt |-> {}, rows |-> <<>>]
EmptyDF == [present |-> TRUE, cols |-> {}, dt |-> {}, rows |-> <<>>]

Instants == {[day |-> d, tod |-> t] : d \in 1..MaxDay, t \in 0..1}
              \cup {[day |-> NaT, tod |-> 0]}

RowSeqs == UNION {[1..n -> Instants] : n \in 0..MaxRows}

\* df.empty: True when any axis has length 0
IsEmpty(f) == Len(f.rows) = 0 \/ f.cols = {}

\* Series.dt.normalize()
Normalize(r) == [r EXCEPT !.tod = 0]

NormalizeRows(rows) == [i \in 1..Len(rows) |-> Normalize(rows[i])]

\* ascending sequence of a finite set of integers (groupby sorts its keys)
RECURSIVE SortedSeq(_)
SortedSeq(S) ==
    IF S = {} THEN <<>>
    ELSE LET m == CHOOSE x \in S : \A y \in S : x <= y
         IN <<m>> \o SortedSeq(S \ {m})

\* df.groupby(<calendar date of the partition column>): NaT keys are dropped
PartitionDays(rows) == SortedSeq({rows[i].day : i \in 1..Len(rows)} \ {NaT})

\* the rows of one group, in frame order
PartRows(rows, d) == SelectSeq(rows, LAMBDA r : r.day = d)

\* next(c for c in ("trading_date", "date", "time") if c in df.columns)
FirstCandidate(cols) ==
    IF "trading_date" \in cols THEN "trading_date"
    ELSE IF "date" \in cols THEN "date"
    ELSE IF "time" \in cols THEN "time"
    ELSE "none"

\* ---------------------------------------------------------------- keys
\* mutant: the file name without its uuid
PartKey_FixedName(base, pcol, d, u) ==
    [base |-> base, col |-> pcol, date |-> d, file |-> "part", uuid |-> 0]

\* f"{base_path}/{partition_col}={partition_value}/{filename_prefix}{uuid4().hex}.parquet"
PartKey(base, pcol, d, u) ==
    [base |-> base, col |-> pcol, date |-> d, file |-> "part", uuid |-> u]

\* f"{base_path}/data_date={data_date.isoformat()}/stock_price.json"
JsonKey(base, d) ==
    [base |-> base, col |-> "data_date", date |-> d, file |-> "stock_price.json", uuid |-> 0]

\* f"{base_path}/run_date={run_date.isoformat()}/_SUCCESS"
SuccessKey(base, rd) ==
    [base |-> base, col |-> "run_date", date |-> rd, file |-> "_SUCCESS", uuid |-> 0]

IsMarker(k) == k.file = "_SUCCESS"

\* s3.put_object(Bucket, Key, Body): the object of that key is replaced
PutObject(s, k, b) == {o \in s : o.key # k} \cup {[key |-> k, body |-> b]}

Keys(s) == {o.key : o \in s}

\* ---------------------------------------------------------------- frames
NoWriter ==
    [fn |-> "none", base |-> "-", pcol |-> "-", fmt |-> "-", rows |-> <<>>,
     parts |-> <<>>, uploaded |-> <<>>, phase |-> "-"]

NoUpload ==
    [result |-> "idle", key |-> SuccessKey("-", 0), body |-> <<>>,
     max_retries |-> 0, attempt |-> 0, fails |-> 0, k0 |-> 0, puts |-> 0]

NoRet == [kind |-> "none", fn |-> "-", val |-> "-", keys |-> <<>>, exc |-> "-"]

\* fn returned val ("list" with its keys, or "None")
Returned(fn, val, keys) ==
    [kind |-> "return", fn |-> fn, val |-> val, keys |-> keys, exc |-> "-"]

\* fn raised exc
Raised(fn, exc) ==
    [kind |-> "raise", fn |-> fn, val |-> "-", keys |-> <<>>, exc |-> exc]

NoCall == [fn |-> "-", df |-> NoneDF, pcol |-> "-", required |-> {}, fmt |-> "-"]

\* no validation call / no build call is being looked at
NoValidation == [phase |-> "none"]

NoBuild == [phase |-> "none"]

NoClean == [phase |-> "none"]

NoFetch == [phase |-> "none"]

\* ---------------------------------------------------------------- upload_bytes
\* mutant: the loop test off by one
RetryLoopRuns_OffByOne(attempt, max_retries) == attempt <= max_retries

\* mutant: the loop has no bound
RetryLoopRuns_Forever(attempt, max_retries) == TRUE

\* while attempt < max_retries:
RetryLoopRuns(attempt, max_retries) == attempt < max_retries

\* The state of an upload_bytes call right after it is entered: the isinstance
\* check, then the loop test.  k is the number of put_object calls the backend
\* fails before it accepts one.
UploadBytesEnter(is_bytes, key, body, max_retries, k) ==
    [result |-> IF ~is_bytes THEN "TypeError"
                ELSE IF RetryLoopRuns(0, max_retries) THEN "running"
                ELSE "RuntimeError",
     key |-> key, body |-> body, max_retries |-> max_retries,
     attempt |-> 0, fails |-> k, k0 |-> k, puts |-> 0]

\* One iteration of the retry loop: a put_object call that succeeds (return) or
\* fails (attempt += 1, sleep, and the loop test; RuntimeError when it ends).
UploadBytesIterate(u) ==
    IF u.fails = 0
    THEN [u EXCEPT !.result = "ok", !.puts = @ + 1]
    ELSE [u EXCEPT !.attempt = @ + 1, !.fails = @ - 1, !.puts = @ + 1,
                   !.result = IF RetryLoopRuns(u.attempt + 1, u.max_retries)
                              THEN "running" ELSE "RuntimeError"]

PutAttempt ==
    /\ ub.result = "running"
    \* no call is followed beyond MaxRetriesArg put_object calls
    /\ ub.puts < MaxRetriesArg
    /\ ub' = UploadBytesIterate(ub)
    /\ store' = IF ub.fails = 0 THEN PutObject(store, ub.key, ub.body) ELSE store
    /\ tried' = tried \cup {ub.key}
    /\ written' = IF ub.fails = 0 THEN Append(written, ub.key) ELSE written
    /\ UNCHANGED <<pc, raw_df, silver_df, gold_df, df, wr, ret, exit_code, uid,
                   run_date, trace, call, store0>>
    /\ UNCHANGED aux

\* ---------------------------------------------------------------- upload_dataframe_to_s3
\* mutant: the required-columns check left out
UploadDataframeCheck_NoRequired(f, pcol, required) ==
    IF ~f.present \/ IsEmpty(f) THEN "empty"
    ELSE IF pcol \notin f.cols THEN "ValueError"
    ELSE IF pcol \notin f.dt THEN "AssertionError"
    ELSE "ok"

\* mutant: the dtype assertion on the partition column left out
UploadDataframeCheck_NoDtype(f, pcol, required) ==
    IF ~f.present \/ IsEmpty(f) THEN "empty"
    ELSE IF required # {} /\ ~(required \subseteq f.cols) THEN "ValueError"
    ELSE IF pcol \notin f.cols THEN "ValueError"
    ELSE "ok"

\* The checks of upload_dataframe_to_s3 before its partition loop.
UploadDataframeCheck(f, pcol, required) ==
    IF ~f.present \/ IsEmpty(f) THEN "empty"
    ELSE IF required # {} /\ ~(required \subseteq f.cols) THEN "ValueError"
    ELSE IF pcol \notin f.cols THEN "ValueError"
    ELSE IF pcol \notin f.dt THEN "AssertionError"
    ELSE "ok"

\* The writer frame entered, or the outcome reached, when a function that ends
\* in upload_dataframe_to_s3 gets there with table f.
EnterUploadDataframe(fn, f, base, pcol, required, fmt, noneval) ==
    LET c == UploadDataframeCheck(f, pcol, required)
    IN IF c = "ok"
       THEN [w |-> [fn |-> fn, base |-> base, pcol |-> pcol, fmt |-> fmt,
                    rows |-> f.rows, parts |-> PartitionDays(f.rows),
                    uploaded |-> <<>>, phase |-> "parts"],
             r |-> NoRet]
       ELSE IF c = "empty"
       THEN [w |-> IF fn = "save_silver"
                   THEN [NoWriter EXCEPT !.fn = fn, !.base = base, !.phase = "parts"]
                   ELSE NoWriter,
             r |-> IF fn = "save_silver" THEN NoRet ELSE Returned(fn, noneval, <<>>)]
       ELSE [w |-> NoWriter, r |-> Raised(fn, c)]

\* ---------------------------------------------------------------- save_*
\* save_raw_stock_price up to its partition loop
EnterSaveRaw(f, base) ==
    IF ~f.present THEN [w |-> NoWriter, r |-> Raised("save_raw", "AttributeError"), f |-> f]
    ELSE IF IsEmpty(f) THEN [w |-> NoWriter, r |-> Returned("save_raw", "list", <<>>), f |-> f]
    ELSE IF FirstCandidate(f.cols) = "none"
    THEN [w |-> NoWriter, r |-> Raised("save_raw", "AssertionError"), f |-> f]
    ELSE IF FirstCandidate(f.cols) \notin f.dt
    THEN [w |-> NoWriter, r |-> Raised("save_raw", "AssertionError"), f |-> f]
    ELSE [w |-> [fn |-> "save_raw", base |-> base, pcol |-> "data_date",
                 fmt |-> "json", rows |-> f.rows, parts |-> PartitionDays(f.rows),
                 uploaded |-> <<>>, phase |-> "parts"],
          r |-> NoRet, f |-> f]

\* df.rename(columns={partition_col: "trading_date"}): a new table
Rename(f, c) ==
    [f EXCEPT !.cols = (@ \ {c}) \cup {"trading_date"},
              !.dt = IF c \in @ THEN (@ \ {c}) \cup {"trading_date"} ELSE @]

\* df["trading_date"] = df["trading_date"].dt.normalize()
\* mutant: the writer also puts the rows in another order
NormalizeColumn_Reorder(f) ==
    [f EXCEPT !.rows = [i \in 1..Len(@) |-> Normalize(@[Len(@) + 1 - i])]]

NormalizeColumn(f) == [f EXCEPT !.rows = NormalizeRows(@)]

\* save_silver_stock_price up to the partition loop of upload_dataframe_to_s3.
\* f is the caller's table after the call's in-place assignment, if it ran.
EnterSaveSilver(f, base) ==
    IF ~f.present \/ IsEmpty(f)
    THEN [w |-> NoWriter, r |-> Returned("save_silver", "None", <<>>), f |-> f]
    ELSE IF FirstCandidate(f.cols) = "none"
    THEN [w |-> NoWriter, r |-> Raised("save_silver", "ValueError"), f |-> f]
    ELSE LET c == FirstCandidate(f.cols)
             local == IF c # "trading_date" THEN Rename(f, c) ELSE f
         IN IF "trading_date" \notin local.dt
            THEN [w |-> NoWriter, r |-> Raised("save_silver", "ValueError"), f |-> f]
            ELSE LET e == EnterUploadDataframe("save_silver", NormalizeColumn(local),
                              base, "trading_date", {"trading_date", "symbol"},
                              "parquet", "list")
                 IN [w |-> e.w, r |-> e.r,
                     f |-> IF c = "trading_date" THEN NormalizeColumn(f) ELSE f]

\* save_gold_stock_price_daily up to the partition loop of upload_dataframe_to_s3
EnterSaveGold(f, base, partition_col) ==
    IF ~f.present \/ IsEmpty(f)
    THEN [w |-> NoWriter, r |-> Returned("save_gold", "None", <<>>), f |-> f]
    ELSE IF partition_col \notin f.cols
    THEN [w |-> NoWriter, r |-> Raised("save_gold", "ValueError"), f |-> f]
    ELSE LET e == EnterUploadDataframe("save_gold", f, base, partition_col,
                      {"symbol", "trading_date", "close_price", "volume"},
                      "parquet", "list")
         IN [w |-> e.w, r |-> e.r, f |-> f]

\* ---------------------------------------------------------------- the partition loop
\* part.to_dict(orient="records") after serialize_df_for_json: datetime columns
\* are written as "%Y-%m-%d" strings
JsonBody(rows, d) == NormalizeRows(PartRows(rows, d))

\* part_df.drop(columns=["_partition"]).to_parquet(buf)
ParquetBody(rows, d) == PartRows(rows, d)

\* Which functions write a _SUCCESS marker after their partitions.
WritesMarker(fn) == fn \in {"save_raw", "save_silver"}

\* A loop iteration up to its upload_bytes call: the key, the body, the call.
BeginPartition ==
    /\ wr.fn # "none" /\ wr.phase = "parts" /\ wr.parts # <<>>
    /\ ub.result = "idle"
    /\ LET d == Head(wr.parts)
       IN IF wr.fn = "save_raw"
          THEN /\ \E k \in 0..DefaultMaxRetries :
                     ub' = UploadBytesEnter(TRUE, JsonKey(wr.base, d),
                               JsonBody(wr.rows, d), DefaultMaxRetries, k)
               /\ UNCHANGED <<uid, wr, ret>>
          ELSE /\ uid' = uid + 1
               /\ IF wr.fmt = "parquet"
                  THEN /\ \E k \in 0..DefaultMaxRetries :
                             ub' = UploadBytesEnter(TRUE,
                                       PartKey(wr.base, wr.pcol, d, uid + 1),
                                       ParquetBody(wr.rows, d), DefaultMaxRetries, k)
                       /\ UNCHANGED <<wr, ret>>
                  ELSE \* raise ValueError(f"Unsupported file_format: ...")
                       /\ ret' = Raised(wr.fn, "ValueError")
                       /\ wr' = NoWriter
                       /\ UNCHANGED ub
    /\ UNCHANGED <<pc, raw_df, silver_df, gold_df, df, store, exit_code, run_date,
                   trace, hist>>
    /\ UNCHANGED aux

\* upload_bytes returned: uploaded_keys.append(key), next iteration
PartitionDone ==
    /\ wr.fn # "none" /\ wr.phase = "parts"
    /\ ub.result = "ok"
    /\ wr' = [wr EXCEPT !.uploaded = Append(@, ub.key), !.parts = Tail(@)]
    /\ ub' = NoUpload
    /\ UNCHANGED <<pc, raw_df, silver_df, gold_df, df, store, ret, exit_code, uid,
                   run_date, trace, hist>>
    /\ UNCHANGED aux

\* mutant: the failure is swallowed and the writer goes on past its loop
OnUploadError_Swallow(w, exc) ==
    [w |-> [w EXCEPT !.parts = <<>>, !.phase = "parts"], r |-> NoRet]

\* mutant: the failure is reported as a partial success
OnUploadError_ReturnPartial(w, exc) ==
    [w |-> NoWriter, r |-> Returned(w.fn, "list", w.uploaded)]

\* What the writer does when upload_bytes raised: the exception propagates
\* (logged and re-raised by upload_dataframe_to_s3 and save_silver_stock_price).
OnUploadError(w, exc) == [w |-> NoWriter, r |-> Raised(w.fn, exc)]

UploadFailed ==
    /\ wr.fn # "none"
    /\ ub.result = "RuntimeError"
    /\ wr' = OnUploadError(wr, ub.result).w
    /\ ret' = OnUploadError(wr, ub.result).r
    /\ ub' = NoUpload
    /\ UNCHANGED <<pc, raw_df, silver_df, gold_df, df, store, exit_code, uid,
                   run_date, trace, hist>>
    /\ UNCHANGED aux

\* After the loop of save_raw / after upload_dataframe_to_s3 returned to
\* save_silver: upload_bytes(b"", key=success_key)
BeginMarker ==
    /\ wr.fn # "none" /\ wr.phase = "parts" /\ wr.parts = <<>>
    /\ WritesMarker(wr.fn)
    /\ ub.result = "idle"
    /\ wr' = [wr EXCEPT !.phase = "marker"]
    /\ \E k \in 0..DefaultMaxRetries :
           ub' = UploadBytesEnter(TRUE, SuccessKey(wr.base, run_date), <<>>,
                                  DefaultMaxRetries, k)
    /\ UNCHANGED <<pc, raw_df, silver_df, gold_df, df, store, ret, exit_code, uid,
                   run_date, trace, hist>>
    /\ UNCHANGED aux

\* uploaded_keys.append(success_key); return uploaded_keys
MarkerDone ==
    /\ wr.fn # "none" /\ wr.phase = "marker"
    /\ ub.result = "ok"
    /\ ret' = Returned(wr.fn, "list", Append(wr.uploaded, ub.key))
    /\ wr' = NoWriter
    /\ ub' = NoUpload
    /\ UNCHANGED <<pc, raw_df, silver_df, gold_df, df, store, exit_code, uid,
                   run_date, trace, hist>>
    /\ UNCHANGED aux

\* return uploaded_keys (upload_dataframe_to_s3, and save_gold through it)
ReturnUploaded ==
    /\ wr.fn # "none" /\ wr.phase = "parts" /\ wr.parts = <<>>
    /\ ~WritesMarker(wr.fn)
    /\ ub.result = "idle"
    /\ ret' = Returned(wr.fn, "list", wr.uploaded)
    /\ wr' = NoWriter
    /\ UNCHANGED <<pc, raw_df, silver_df, gold_df, df, ub, store, exit_code, uid,
                   run_date, trace, hist>>
    /\ UNCHANGED aux

\* ---------------------------------------------------------------- direct calls
\* Column sets of the tables handed to the writer functions directly.
ColSets ==
    { {"trading_date", "symbol", "close_price", "volume"},
      {"trading_date", "close_price", "volume"},
      {"trading_date", "symbol"},
      {"date", "symbol", "close_price", "volume"},
      {"time", "symbol"},
      {"symbol", "close_price", "volume"} }

DateColumns == {"trading_date", "date", "time"}

Frames ==
    {NoneDF} \cup
    UNION {{[present |-> TRUE, cols |-> c, dt |-> t, rows |-> r] :
               t \in {{}, c \cap DateColumns}, r \in RowSeqs} : c \in ColSets}

DirectKey == [base |-> "direct", col |-> "-", date |-> 0, file |-> "object", uuid |-> 0]

CallUploadBytes ==
    /\ pc = "idle"
    /\ \E is_bytes \in BOOLEAN, m \in 0..MaxRetriesArg, k \in 0..MaxFail :
           ub' = UploadBytesEnter(is_bytes, DirectKey, <<>>, m, k)
    /\ pc' = "direct"
    /\ call' = [NoCall EXCEPT !.fn = "upload_bytes"]
    /\ store0' = store
    /\ tried' = {}
    /\ written' = <<>>
    /\ UNCHANGED <<raw_df, silver_df, gold_df, df, wr, store, ret, exit_code, uid,
                   run_date, trace>>
    /\ UNCHANGED aux

\* upload_bytes returns None or raises to the direct caller
UploadBytesReturn ==
    /\ pc = "direct" /\ wr.fn = "none"
    /\ ub.result \in {"ok", "RuntimeError", "TypeError"}
    /\ ret' = IF ub.result = "ok" THEN Returned("upload_bytes", "None", <<>>)
              ELSE Raised("upload_bytes", ub.result)
    /\ ub' = NoUpload
    /\ UNCHANGED <<pc, raw_df, silver_df, gold_df, df, wr, store, exit_code, uid,
                   run_date, trace, hist>>
    /\ UNCHANGED aux

\* The caller's side of entering a writer with table f: e is the Enter* record.
Enter(c, e) ==
    /\ call' = c
    /\ df' = e.f
    /\ wr' = e.w
    /\ ret' = e.r
    /\ store0' = store
    /\ tried' = {}
    /\ written' = <<>>

\* the arguments of a call of fn on table f
CallOf(fn, f, pcol, required, fmt) ==
    [fn |-> fn, df |-> f, pcol |-> pcol, required |-> required, fmt |-> fmt]

RawCall(f) == CallOf("save_raw", f, FirstCandidate(f.cols), {}, "json")

SilverCall(f) ==
    CallOf("save_silver", f, FirstCandidate(f.cols), {"trading_date", "symbol"}, "parquet")

GoldCall(f, partition_col) ==
    CallOf("save_gold", f, partition_col,
           {"symbol", "trading_date", "close_price", "volume"}, "parquet")

CallUploadDataframe ==
    /\ pc = "idle"
    /\ \E f \in Frames, pcol \in {"trading_date", "date"},
          required \in {{}, {"trading_date", "symbol"}}, fmt \in {"parquet", "csv"} :
           LET e == EnterUploadDataframe("upload_dataframe_to_s3", f, "direct",
                                         pcol, required, fmt, "list")
           IN Enter(CallOf("upload_dataframe_to_s3", f, pcol, required, fmt),
                    [w |-> e.w, r |-> e.r, f |-> f])
    /\ pc' = "direct"
    /\ UNCHANGED <<raw_df, silver_df, gold_df, ub, store, exit_code, uid, run_date,
                   trace>>
    /\ UNCHANGED aux

CallSaveRaw ==
    /\ pc = "idle"
    /\ \E f \in Frames : Enter(RawCall(f), EnterSaveRaw(f, "bronze"))
    /\ pc' = "direct"
    /\ UNCHANGED <<raw_df, silver_df, gold_df, ub, store, exit_code, uid, run_date,
                   trace>>
    /\ UNCHANGED aux

CallSaveSilver ==
    /\ pc = "idle"
    /\ \E f \in Frames : Enter(SilverCall(f), EnterSaveSilver(f, "silver"))
    /\ pc' = "direct"
    /\ UNCHANGED <<raw_df, silver_df, gold_df, ub, store, exit_code, uid, run_date,
                   trace>>
    /\ UNCHANGED aux

CallSaveGold ==
    /\ pc = "idle"
    /\ \E f \in Frames, partition_col \in {"trading_date", "date"} :
           Enter(GoldCall(f, partition_col), EnterSaveGold(f, "gold", partition_col))
    /\ pc' = "direct"
    /\ UNCHANGED <<raw_df, silver_df, gold_df, ub, store, exit_code, uid, run_date,
                   trace>>
    /\ UNCHANGED aux


\* ---------------------------------------------------------------- run_daily_pipeline
\* The modelled runs fetch the rows of one (symbol, exchange), so a row's key is
\* its calendar day.
StageOrder ==
    <<"FETCH", "SAVE_RAW", "CLEAN", "VALIDATE_SILVER", "SAVE_SILVER",
      "BUILD_GOLD", "VALIDATE_GOLD", "SAVE_GOLD", "DONE">>

StageIndex(s) == CHOOSE i \in 1..Len(StageOrder) : StageOrder[i] = s

\* mutant: VALIDATE_SILVER is passed over
NextStage_Skip(s) ==
    IF s = "CLEAN" THEN "SAVE_SILVER" ELSE StageOrder[StageIndex(s) + 1]

\* the statement that follows a stage's try block
NextStage(s) == StageOrder[StageIndex(s) + 1]

\* mutant: the exception is logged and the run goes on
OnRaise_Continue(s) == StageOrder[StageIndex(s) + 1]

\* except Exception: logger.exception(...); sys.exit(1)
OnRaise(s) == "FAILED"

\* mutant: the early returns left out
OnEmpty_Continue(s) == StageOrder[StageIndex(s) + 1]

\* if raw_df is None or raw_df.empty: return / if gold_df is None or gold_df.empty: return
OnEmpty(s) == IF s \in {"FETCH", "BUILD_GOLD"} THEN "DONE" ELSE NextStage(s)

AfterStage(s, outcome) ==
    IF outcome = "raise" THEN OnRaise(s)
    ELSE IF outcome = "empty" THEN OnEmpty(s)
    ELSE NextStage(s)

\* sys.exit(1) on a failed stage, a normal return otherwise
ExitCodeAt(p) == IF p = "FAILED" THEN 1 ELSE IF p = "DONE" THEN 0 ELSE -1

\* a stage's operation ran to its outcome in one step
Goto(s, outcome) ==
    /\ pc' = AfterStage(s, outcome)
    /\ exit_code' = ExitCodeAt(AfterStage(s, outcome))
    /\ trace' = Append(trace, [stage |-> s, outcome |-> outcome])

\* a save stage calls its writer
Called(s) ==
    /\ pc' = s \o ".called"
    /\ trace' = Append(trace, [stage |-> s, outcome |-> "called"])

\* a save stage's writer came back
GotoReturn(s, outcome) ==
    /\ pc' = AfterStage(s, outcome)
    /\ exit_code' = ExitCodeAt(AfterStage(s, outcome))
    /\ trace' = [trace EXCEPT ![Len(trace)].outcome = outcome]

OutcomeOf(f) == IF ~f.present \/ IsEmpty(f) THEN "empty" ELSE "ok"

RECURSIVE SubSeqs(_)
SubSeqs(q) ==
    IF q = <<>> THEN {<<>>}
    ELSE LET rest == SubSeqs(Tail(q))
         IN rest \cup {<<Head(q)>> \o t : t \in rest}

\* ---- fetch_hose_stock_prices: what it returns (it may also raise)
\* Columns of the vnstock history frame plus symbol, trading_date and api_*.
ApiFrames ==
    { [cols |-> {"time", "close", "volume", "symbol", "trading_date"},
       dt |-> {"time", "trading_date"}],
      [cols |-> {"time", "close", "volume", "symbol", "trading_date"},
       dt |-> {"trading_date"}],
      [cols |-> {"time", "volume", "symbol", "trading_date"},
       dt |-> {"time", "trading_date"}] }

\* trading_date is parsed, normalized, non-null and inside [start, end]
FetchedRows ==
    {r \in RowSeqs : \A i \in 1..Len(r) : r[i].day # NaT /\ r[i].tod = 0}

FetchResults ==
    {EmptyDF} \cup
    {[present |-> TRUE, cols |-> a.cols, dt |-> a.dt, rows |-> r] :
        a \in ApiFrames, r \in FetchedRows}

RunDailyPipeline ==
    /\ pc = "idle"
    /\ pc' = "FETCH"
    /\ UNCHANGED <<raw_df, silver_df, gold_df, df, wr, ub, store, ret, exit_code,
                   uid, run_date, trace, hist>>
    /\ UNCHANGED aux

Fetch ==
    /\ pc = "FETCH"
    /\ \/ /\ Goto("FETCH", "raise")
          /\ UNCHANGED raw_df
       \/ \E f \in FetchResults :
            /\ raw_df' = f
            /\ Goto("FETCH", OutcomeOf(f))
    /\ UNCHANGED <<silver_df, gold_df, df, wr, ub, store, ret, uid, run_date,
                   hist>>
    /\ UNCHANGED aux

SaveRaw ==
    /\ pc = "SAVE_RAW"
    /\ Enter(RawCall(raw_df), EnterSaveRaw(raw_df, "bronze"))
    /\ Called("SAVE_RAW")
    /\ UNCHANGED <<raw_df, silver_df, gold_df, ub, store, exit_code, uid, run_date>>
    /\ UNCHANGED aux

SaveRawReturn ==
    /\ pc = "SAVE_RAW.called" /\ ret.kind # "none"
    /\ GotoReturn("SAVE_RAW", IF ret.kind = "raise" THEN "raise" ELSE "ok")
    /\ ret' = NoRet
    /\ UNCHANGED <<raw_df, silver_df, gold_df, df, wr, ub, store, uid, run_date, hist>>
    /\ UNCHANGED aux

\* ---- clean_stock_price: the set of its outcomes [exc, f]
CleanStockPrice(f) ==
    IF ~f.present \/ IsEmpty(f) THEN {[exc |-> "-", f |-> EmptyDF]}
    ELSE LET date_col == IF "time" \in f.cols THEN "time"
                         ELSE IF "date" \in f.cols THEN "date" ELSE "none"
             cols1 == (f.cols \ {"time", "date"}) \cup {"trading_date"}
             cols2 == IF "close" \in cols1
                      THEN (cols1 \ {"close"}) \cup {"close_price"} ELSE cols1
             parsed == \A i \in 1..Len(f.rows) : f.rows[i].day # NaT
             kept == SelectSeq(NormalizeRows(f.rows), LAMBDA r : r.day # NaT)
         IN IF date_col = "none" THEN {[exc |-> "ValueError", f |-> NoneDF]}
            ELSE IF date_col \notin f.dt /\ ~parsed
            THEN {[exc |-> "ValueError", f |-> NoneDF]}
            ELSE IF "volume" \notin cols2
            THEN {[exc |-> "AttributeError", f |-> NoneDF]}
            ELSE IF ~({"symbol", "close_price"} \subseteq cols2)
            THEN {[exc |-> "KeyError", f |-> NoneDF]}
            ELSE {[exc |-> "-",
                   f |-> [present |-> TRUE,
                          cols |-> cols2 \cup {"exchange", "source", "ingestion_time"},
                          dt |-> (f.dt \ {"time", "date"}) \cup {"trading_date"},
                          rows |-> q]] : q \in SubSeqs(kept)}

\* The block after clean_stock_price: silver_df.trading_date must be datetime64
RangeCheckRaises(f) ==
    /\ f.present /\ ~IsEmpty(f)
    /\ "trading_date" \in f.cols
    /\ "trading_date" \notin f.dt

Clean ==
    /\ pc = "CLEAN"
    /\ \E o \in CleanStockPrice(raw_df) :
         IF o.exc # "-"
         THEN Goto("CLEAN", "raise") /\ UNCHANGED silver_df
         ELSE /\ silver_df' = o.f
              /\ Goto("CLEAN", IF RangeCheckRaises(o.f) THEN "raise" ELSE "ok")
    /\ UNCHANGED <<raw_df, gold_df, df, wr, ub, store, ret, uid, run_date, hist>>
    /\ UNCHANGED aux

\* ---- validate_dataframe_schema(silver_df, schema, strict=True).  The contract
\* file is not part of the sources: a non-empty table passes or is refused.
ValidateOutcomes(f) ==
    IF ~f.present \/ IsEmpty(f) THEN {"raise"} ELSE {"ok", "raise"}

ValidateSilver ==
    /\ pc = "VALIDATE_SILVER"
    /\ \E o \in ValidateOutcomes(silver_df) : Goto("VALIDATE_SILVER", o)
    /\ UNCHANGED <<raw_df, silver_df, gold_df, df, wr, ub, store, ret, uid,
                   run_date, hist>>
    /\ UNCHANGED aux

SaveSilver ==
    /\ pc = "SAVE_SILVER"
    /\ Enter(SilverCall(silver_df), EnterSaveSilver(silver_df, "silver"))
    /\ Called("SAVE_SILVER")
    /\ UNCHANGED <<raw_df, silver_df, gold_df, ub, store, exit_code, uid, run_date>>
    /\ UNCHANGED aux

\* silver_df is the object the writer was handed: its in-place assignment shows
SaveSilverReturn ==
    /\ pc = "SAVE_SILVER.called" /\ ret.kind # "none"
    /\ GotoReturn("SAVE_SILVER", IF ret.kind = "raise" THEN "raise" ELSE "ok")
    /\ silver_df' = df
    /\ ret' = NoRet
    /\ UNCHANGED <<raw_df, gold_df, df, wr, ub, store, uid, run_date,
                   hist>>
    /\ UNCHANGED aux

\* ---- build_stock_price_daily: the set of its outcomes [exc, f]
\* sort_values(kind="mergesort") on the key, here the day
RECURSIVE SortByDay(_)
SortByDay(q) ==
    IF q = <<>> THEN <<>>
    ELSE LET m == CHOOSE d \in {q[i].day : i \in 1..Len(q)} :
                      \A i \in 1..Len(q) : d <= q[i].day
         IN SelectSeq(q, LAMBDA r : r.day = m) \o
            SortByDay(SelectSeq(q, LAMBDA r : r.day # m))

\* drop_duplicates(subset=key, keep="last")
DropDuplicatesKeepLast(q) ==
    LET keep == {i \in 1..Len(q) : \A j \in (i + 1)..Len(q) : q[j].day # q[i].day}
        F[i \in 0..Len(q)] ==
            IF i = 0 THEN <<>>
            ELSE IF i \in keep THEN Append(F[i - 1], q[i]) ELSE F[i - 1]
    IN F[Len(q)]

GoldColumns ==
    {"symbol", "exchange", "trading_date", "close_price", "volume",
     "daily_return", "ma_5", "ma_20"}

BuildStockPriceDaily(f) ==
    IF ~f.present \/ IsEmpty(f) THEN {[exc |-> "-", f |-> EmptyDF]}
    ELSE IF ~({"symbol", "exchange", "trading_date", "close_price", "volume"}
                \subseteq f.cols)
    THEN {[exc |-> "-", f |-> EmptyDF]}
    ELSE IF "trading_date" \notin f.dt THEN {[exc |-> "ValueError", f |-> NoneDF]}
    ELSE {[exc |-> "-",
           f |-> [present |-> TRUE, cols |-> GoldColumns, dt |-> {"trading_date"},
                  rows |-> DropDuplicatesKeepLast(SortByDay(q))]] :
             q \in SubSeqs(f.rows)}

BuildGold ==
    /\ pc = "BUILD_GOLD"
    /\ \E o \in BuildStockPriceDaily(silver_df) :
         IF o.exc # "-"
         THEN Goto("BUILD_GOLD", "raise") /\ UNCHANGED gold_df
         ELSE gold_df' = o.f /\ Goto("BUILD_GOLD", OutcomeOf(o.f))
    /\ UNCHANGED <<raw_df, silver_df, df, wr, ub, store, ret, uid, run_date,
                   hist>>
    /\ UNCHANGED aux

\* validate_stock_price_daily(gold_df): strict by default
ValidateGold ==
    /\ pc = "VALIDATE_GOLD"
    /\ \E o \in ValidateOutcomes(gold_df) : Goto("VALIDATE_GOLD", o)
    /\ UNCHANGED <<raw_df, silver_df, gold_df, df, wr, ub, store, ret, uid,
                   run_date, hist>>
    /\ UNCHANGED aux

SaveGold ==
    /\ pc = "SAVE_GOLD"
    /\ Enter(GoldCall(gold_df, "trading_date"),
             EnterSaveGold(gold_df, "gold", "trading_date"))
    /\ Called("SAVE_GOLD")
    /\ UNCHANGED <<raw_df, silver_df, gold_df, ub, store, exit_code, uid, run_date>>
    /\ UNCHANGED aux

SaveGoldReturn ==
    /\ pc = "SAVE_GOLD.called" /\ ret.kind # "none"
    /\ GotoReturn("SAVE_GOLD", IF ret.kind = "raise" THEN "raise" ELSE "ok")
    /\ ret' = NoRet
    /\ UNCHANGED <<raw_df, silver_df, gold_df, df, wr, ub, store, uid, run_date, hist>>
    /\ UNCHANGED aux

\* ---------------------------------------------------------------- specification
\* the pipeline, the writers and the store before anything ran
InitRun ==
    /\ pc = "idle"
    /\ raw_df = NoneDF /\ silver_df = NoneDF /\ gold_df = NoneDF /\ df = NoneDF
    /\ wr = NoWriter /\ ub = NoUpload
    /\ store = {}
    /\ ret = NoRet
    /\ exit_code = -1
    /\ uid = 0
    /\ trace = <<>>
    /\ call = NoCall /\ store0 = {} /\ tried = {} /\ written = <<>>
    /\ runs = 0

Init ==
    /\ InitRun
    /\ run_date \in 1..MaxDay
    /\ vd = NoValidation /\ bd = NoBuild /\ cn = NoClean /\ ft = NoFetch

Next ==
    \/ CallUploadBytes \/ UploadBytesReturn
    \/ CallUploadDataframe \/ CallSaveRaw \/ CallSaveSilver \/ CallSaveGold
    \/ BeginPartition \/ PutAttempt \/ PartitionDone \/ UploadFailed
    \/ BeginMarker \/ MarkerDone \/ ReturnUploaded
    \/ RunDailyPipeline \/ Fetch \/ SaveRaw \/ SaveRawReturn \/ Clean
    \/ ValidateSilver \/ SaveSilver \/ SaveSilverReturn \/ BuildGold
    \/ ValidateGold \/ SaveGold \/ SaveGoldReturn

Spec == Init /\ [][Next]_vars

\* ---------------------------------------------------------------- repeated writes
\* The store outlives a run.  A later run of the pipeline for the same run_date
\* calls the three save functions again on the tables of that run: here a
\* sequence of save calls, each on a table of the days 1..n, against the
\* store the earlier calls left.
MaxRuns == 2

\* tables of a layer as the pipeline hands them to its save function
RunRows ==
    {[i \in 1..n |-> [day |-> i, tod |-> 0]] : n \in {m \in 0..MaxDay : m <= MaxRows}}

RunFrames(cols) ==
    {[present |-> TRUE, cols |-> cols, dt |-> {"trading_date"}, rows |-> r] :
        r \in RunRows}

SilverColumns ==
    {"symbol", "trading_date", "close_price", "volume", "exchange", "source",
     "ingestion_time"}

RunSaveRaw ==
    /\ pc = "idle"
    /\ \E f \in RunFrames({"time", "close", "volume", "symbol", "trading_date"}) :
           Enter(RawCall(f), EnterSaveRaw(f, "bronze"))
    /\ pc' = "direct"
    /\ UNCHANGED <<raw_df, silver_df, gold_df, ub, store, exit_code, uid, run_date,
                   trace, aux>>

RunSaveSilver ==
    /\ pc = "idle"
    /\ \E f \in RunFrames(SilverColumns) :
           Enter(SilverCall(f), EnterSaveSilver(f, "silver"))
    /\ pc' = "direct"
    /\ UNCHANGED <<raw_df, silver_df, gold_df, ub, store, exit_code, uid, run_date,
                   trace, aux>>

RunSaveGold ==
    /\ pc = "idle"
    /\ \E f \in RunFrames(GoldColumns) :
           Enter(GoldCall(f, "trading_date"), EnterSaveGold(f, "gold", "trading_date"))
    /\ pc' = "direct"
    /\ UNCHANGED <<raw_df, silver_df, gold_df, ub, store, exit_code, uid, run_date,
                   trace, aux>>

\* the save call is over (returned or raised): the next one starts from the
\* store as it is now
NextRun ==
    /\ pc = "direct" /\ ret.kind # "none"
    /\ wr = NoWriter /\ ub = NoUpload
    /\ runs + 1 < MaxRuns
    /\ runs' = runs + 1
    /\ pc' = "idle"
    /\ ret' = NoRet
    /\ UNCHANGED <<raw_df, silver_df, gold_df, df, wr, ub, store, exit_code, uid,
                   run_date, trace, hist, vd, bd, cn, ft>>

NextRerun ==
    \/ RunSaveRaw \/ RunSaveSilver \/ RunSaveGold \/ NextRun
    \/ BeginPartition \/ PutAttempt \/ PartitionDone \/ UploadFailed
    \/ BeginMarker \/ MarkerDone \/ ReturnUploaded

SpecRerun == Init /\ [][NextRerun]_vars

\* ---------------------------------------------------------------- validate_dataframe_schema
\* A dataset of the validator is [present, cols, date_dtype, rows]: a row maps
\* each column to a cell.  A cell is null, a text, a number (v, or v + 1/2 when
\* frac: 1 and -1.5 here) or a timestamp [day, tod].  symbol is an object column, volume a
\* numeric one, trading_date a datetime64 column or an object column of
\* unparsed dates (date_dtype).
Null == [k |-> "null"]

Str(v) == [k |-> "str", v |-> v]

Num(v, frac) == [k |-> "num", v |-> v, frac |-> frac]

Ts(day, tod) == [k |-> "ts", day |-> day, tod |-> tod]

Cells(col) ==
    IF col = "symbol" THEN {Str("A"), Null}
    ELSE IF col = "trading_date" THEN {Ts(1, 0), Ts(1, 1), Null}
    ELSE {Num(1, FALSE), Num(-2, TRUE), Null}

VColSets ==
    { {"symbol", "trading_date", "volume"}, {"symbol", "volume"},
      {"symbol", "trading_date"} }

VRows(cols) ==
    {[col \in cols |-> IF col = "symbol" THEN s
                       ELSE IF col = "trading_date" THEN t ELSE v] :
        s \in Cells("symbol"), t \in Cells("trading_date"), v \in Cells("volume")}

VFrames ==
    {[present |-> FALSE, cols |-> {}, date_dtype |-> "-", rows |-> <<>>]} \cup
    UNION {{[present |-> TRUE, cols |-> cols, date_dtype |-> t, rows |-> q] :
              t \in IF "trading_date" \in cols THEN {"datetime64", "object"} ELSE {"-"},
              q \in UNION {[1..n -> VRows(cols)] : n \in 0..MaxRows}} :
           cols \in VColSets}

\* the contracts: columns in file order, partition_by, primary_key and the two
\* quality lists
Column(name, type, nullable) == [name |-> name, type |-> type, nullable |-> nullable]

VContracts ==
    { [columns |-> <<Column("symbol", "string", FALSE),
                     Column("trading_date", "date", FALSE),
                     Column("volume", "int", FALSE)>>,
       partition_by |-> <<"trading_date">>,
       primary_key |-> <<"symbol", "trading_date">>,
       not_null |-> <<"symbol">>, positive_values |-> <<"volume">>],
      [columns |-> <<Column("symbol", "string", TRUE),
                     Column("volume", "float", TRUE)>>,
       partition_by |-> <<>>,
       primary_key |-> <<"symbol", "trading_date">>,
       not_null |-> <<>>, positive_values |-> <<"volume">>],
      [columns |-> <<Column("trading_date", "timestamp", TRUE),
                     Column("volume", "decimal", TRUE),
                     Column("symbol", "float", TRUE)>>,
       partition_by |-> <<>>, primary_key |-> <<>>,
       not_null |-> <<"trading_date">>, positive_values |-> <<>>],
      [columns |-> <<Column("volume", "bigint", FALSE)>>,
       partition_by |-> <<"symbol">>, primary_key |-> <<"symbol">>,
       not_null |-> <<>>, positive_values |-> <<"volume">>] }

\* series.isnull().any()
AnyNull(d, col) == \E i \in 1..Len(d.rows) : d.rows[i][col] = Null

\* the non-null cells of a column: series.dropna()
NonNull(d, col) == {d.rows[i][col] : i \in {j \in 1..Len(d.rows) : d.rows[j][col] # Null}}

\* series.dtype
Dtype(d, col) ==
    IF col = "trading_date" THEN d.date_dtype
    ELSE IF col = "symbol" THEN "object"
    ELSE IF AnyNull(d, col) \/ \E c \in NonNull(d, col) : c.frac THEN "float64"
    ELSE "int64"

\* _is_integer_valued(series)
IsIntegerValued(d, col) ==
    IF NonNull(d, col) = {} THEN TRUE
    ELSE IF Dtype(d, col) = "int64" THEN TRUE
    ELSE IF Dtype(d, col) = "float64" THEN \A c \in NonNull(d, col) : ~c.frac
    ELSE IF Dtype(d, col) = "datetime64" THEN TRUE
    ELSE FALSE

\* One check of the validator, in the order the code makes them.
Check(kind, col, type, nullable) ==
    [kind |-> kind, col |-> col, type |-> type, nullable |-> nullable]

RECURSIVE Concat(_)
Concat(qq) == IF qq = <<>> THEN <<>> ELSE Head(qq) \o Concat(Tail(qq))

Names(cols) == {cols[i].name : i \in 1..Len(cols)}

Range(q) == {q[i] : i \in 1..Len(q)}

\* The checks validate_dataframe_schema goes through on a non-empty dataset: a
\* contract column missing from the dataset gets no nullable or type check.
CheckList(c, d) ==
    <<Check("missing", "-", "-", TRUE)>>
    \o [i \in 1..Len(c.partition_by) |-> Check("partition", c.partition_by[i], "-", TRUE)]
    \o Concat([i \in 1..Len(c.columns) |->
                  IF c.columns[i].name \in d.cols
                  THEN <<Check("nullable", c.columns[i].name, "-", c.columns[i].nullable),
                         Check("type", c.columns[i].name, c.columns[i].type, TRUE)>>
                  ELSE <<>>])
    \o (IF c.primary_key # <<>>
        THEN [i \in 1..Len(c.primary_key) |-> Check("pk_null", c.primary_key[i], "-", TRUE)]
             \o <<Check("pk_dup", "-", "-", TRUE)>>
        ELSE <<>>)
    \o [i \in 1..Len(c.not_null) |-> Check("not_null", c.not_null[i], "-", TRUE)]
    \o [i \in 1..Len(c.positive_values) |->
           Check("positive", c.positive_values[i], "-", TRUE)]

\* the type rules: TRUE when the column breaks the declared type
\* mutant: a date column is checked like a timestamp column
TypeViolation_DtypeOnly(d, col, type) ==
    IF type = "string" THEN Dtype(d, col) # "object"
    ELSE IF type = "float" THEN Dtype(d, col) \notin {"float64", "int64"}
    ELSE IF type \in {"int", "bigint"} THEN ~IsIntegerValued(d, col)
    ELSE IF type \in {"date", "timestamp"} THEN Dtype(d, col) # "datetime64"
    ELSE TRUE

TypeViolation(d, col, type) ==
    IF type = "string" THEN Dtype(d, col) # "object"
    ELSE IF type = "float" THEN Dtype(d, col) \notin {"float64", "int64"}
    ELSE IF type \in {"int", "bigint"} THEN ~IsIntegerValued(d, col)
    ELSE IF type = "date"
    THEN \/ Dtype(d, col) # "datetime64"
         \/ \E x \in NonNull(d, col) : x.tod # 0
    ELSE IF type = "timestamp" THEN Dtype(d, col) # "datetime64"
    ELSE TRUE

\* mutant: duplicated() without its subset
Duplicated_AllColumns(d, pk) ==
    \E i, j \in 1..Len(d.rows) : i < j /\ d.rows[i] = d.rows[j]

\* df.duplicated(subset=pk_cols).any()
Duplicated(d, pk) ==
    \E i, j \in 1..Len(d.rows) :
       i < j /\ \A col \in Range(pk) : d.rows[i][col] = d.rows[j][col]

\* What one check finds: "pass", "violation", or the exception pandas raises.
Eval(ch, c, d) ==
    IF ch.kind = "missing"
    THEN IF Names(c.columns) \ d.cols # {} THEN "violation" ELSE "pass"
    ELSE IF ch.kind = "partition"
    THEN IF ch.col \notin d.cols THEN "violation" ELSE "pass"
    ELSE IF ch.kind = "nullable"
    THEN IF ~ch.nullable /\ AnyNull(d, ch.col) THEN "violation" ELSE "pass"
    ELSE IF ch.kind = "type"
    THEN IF TypeViolation(d, ch.col, ch.type) THEN "violation" ELSE "pass"
    ELSE IF ch.kind \in {"pk_null", "not_null"}
    THEN IF ch.col \in d.cols /\ AnyNull(d, ch.col) THEN "violation" ELSE "pass"
    ELSE IF ch.kind = "pk_dup"
    THEN IF ~(Range(c.primary_key) \subseteq d.cols) THEN "KeyError"
         ELSE IF Duplicated(d, c.primary_key) THEN "violation" ELSE "pass"
    ELSE \* positive: (df[col].dropna() < 0).any()
         IF ch.col \notin d.cols THEN "pass"
         ELSE IF \E x \in NonNull(d, ch.col) : x.k # "num" THEN "TypeError"
         ELSE IF \E x \in NonNull(d, ch.col) : x.v < 0 THEN "violation"
         ELSE "pass"

\* mutant: _handle only warns
Handle_NeverRaises(strict) == "warn"

\* _handle(msg, strict)
Handle(strict) == IF strict THEN "raise" ELSE "warn"

\* The checks from the i-th on: the outcome, the violations handled and the
\* number of checks evaluated.
RECURSIVE RunChecks(_, _, _, _, _, _)
RunChecks(chs, c, d, strict, i, log) ==
    IF i > Len(chs) THEN [result |-> "return", log |-> log, n |-> Len(chs) + 1]
    ELSE LET e == Eval(chs[i], c, d)
         IN IF e = "pass" THEN RunChecks(chs, c, d, strict, i + 1, log)
            ELSE IF e # "violation" THEN [result |-> e, log |-> log, n |-> i + 1]
            ELSE IF Handle(strict) = "raise"
            THEN [result |-> "ValueError", log |-> Append(log, chs[i]), n |-> i + 1]
            ELSE RunChecks(chs, c, d, strict, i + 1, Append(log, chs[i]))

EmptyCheck == Check("empty", "-", "-", TRUE)

\* validate_dataframe_schema(df, schema_path, strict); the empty test counts as
\* the first check
ValidateDataframeSchema(d, c, strict) ==
    IF ~d.present \/ IsEmpty(d)
    THEN IF Handle(strict) = "raise"
         THEN [result |-> "ValueError", log |-> <<EmptyCheck>>, n |-> 1]
         ELSE [result |-> "return", log |-> <<EmptyCheck>>, n |-> 1]
    ELSE RunChecks(CheckList(c, d), c, d, strict, 1, <<>>)

\* validate_stock_price_daily(df, schema_path, strict), its schema file found
ValidateStockPriceDaily(d, c, strict) ==
    IF ~d.present \/ IsEmpty(d)
    THEN [result |-> "ValueError", log |-> <<>>, n |-> 0]
    ELSE ValidateDataframeSchema(d, c, strict)

NoOutcome == [result |-> "-", log |-> <<>>, n |-> 0]

InitValidate ==
    /\ InitRun
    /\ run_date = 1
    /\ bd = NoBuild /\ cn = NoClean /\ ft = NoFetch
    /\ vd \in {[phase |-> "ready", fn |-> "-", df |-> d, schema |-> c,
                strict |-> FALSE, out |-> NoOutcome] : d \in VFrames, c \in VContracts}

ValidateSchemaCall ==
    /\ vd.phase = "ready"
    /\ \E strict \in BOOLEAN :
         vd' = [vd EXCEPT !.phase = "done", !.fn = "validate_dataframe_schema",
                          !.strict = strict,
                          !.out = ValidateDataframeSchema(vd.df, vd.schema, strict)]
    /\ UNCHANGED <<pc, raw_df, silver_df, gold_df, df, wr, ub, store, ret, exit_code,
                   uid, run_date, trace, hist, runs, bd, cn, ft>>

ValidateGoldCall ==
    /\ vd.phase = "ready"
    /\ \E strict \in BOOLEAN :
         vd' = [vd EXCEPT !.phase = "done", !.fn = "validate_stock_price_daily",
                          !.strict = strict,
                          !.out = ValidateStockPriceDaily(vd.df, vd.schema, strict)]
    /\ UNCHANGED <<pc, raw_df, silver_df, gold_df, df, wr, ub, store, ret, exit_code,
                   uid, run_date, trace, hist, runs, bd, cn, ft>>

NextValidate == ValidateSchemaCall \/ ValidateGoldCall

SpecValidate == InitValidate /\ [][NextValidate]_vars

\* ---------------------------------------------------------------- build_stock_price_daily
\* The feature builder on the values of a cleaned table.  A row is
\* [symbol, exchange, day, tod, close, ok]: ok says that close_price and volume are
\* numbers (to_numeric gives no NaN); close is the price; trading_date is the
\* instant (day, tod); frac says that volume has a fractional part.  A table is
\* [present, cols, date_dt, rows].  A mean is kept as [sum, n], a return as
\* [null, num, den].
MaxBuildRows == 22

\* rolling(window=5, ...), rolling(window=20, ...)
Ma5Window == 5

Ma20Window == 20

SymbolOrder == <<"A", "B">>

ExchangeOrder == <<"HNX", "HOSE">>

Pos(q, x) == CHOOSE i \in 1..Len(q) : q[i] = x

RequiredCols == {"symbol", "exchange", "trading_date", "close_price", "volume"}

BRow(symbol, exchange, day, tod, close, ok) ==
    [symbol |-> symbol, exchange |-> exchange, day |-> day, tod |-> tod,
     close |-> close, ok |-> ok, frac |-> FALSE]

BRows ==
    {BRow(sy, ex, d, 0, c, TRUE) :
        sy \in Range(SymbolOrder), ex \in Range(ExchangeOrder), d \in 1..MaxDay, c \in 0..2}
    \cup {BRow(sy, ex, d, 0, 0, FALSE) :
        sy \in Range(SymbolOrder), ex \in Range(ExchangeOrder), d \in 1..MaxDay}

\* one symbol over the days 1..n, in day order or in reverse, every close 1
\* but for a 3 on day j; with again, a second row for day 1, of close 0, at the end
LongRows(n, j, reversed, again) ==
    [i \in 1..n |->
        LET d == IF reversed THEN n + 1 - i ELSE i
        IN BRow("A", "HOSE", d, 0, IF d = j THEN 3 ELSE 1, TRUE)]
    \o (IF again THEN <<BRow("A", "HOSE", 1, 0, 0, TRUE)>> ELSE <<>>)

BTable(cols, date_dt, rows) ==
    [present |-> TRUE, cols |-> cols, date_dt |-> date_dt, rows |-> rows]

BInputs ==
    {[present |-> FALSE, cols |-> {}, date_dt |-> FALSE, rows |-> <<>>]}
    \cup {BTable(RequiredCols, TRUE, q) :
             q \in UNION {[1..n -> BRows] : n \in 0..MaxRows}}
    \cup UNION {{BTable(RequiredCols, TRUE, LongRows(n, j, rv, ag)) :
                    j \in {0, 1, 2, n}, rv \in BOOLEAN, ag \in BOOLEAN} :
                 n \in (MaxRows + 1)..MaxBuildRows}
    \cup {BTable(cols, dt, <<[BRow("A", "HOSE", 1, tod, 1, TRUE) EXCEPT !.frac = fr]>>) :
             cols \in {RequiredCols, RequiredCols \ {"exchange"},
                       RequiredCols \ {"trading_date"}},
             dt \in BOOLEAN, tod \in 0..1, fr \in BOOLEAN}
    \cup {BTable(cols, dt, <<>>) :
             cols \in {RequiredCols, RequiredCols \ {"exchange"}}, dt \in BOOLEAN}

\* the sort key (symbol, exchange, trading_date)
KeyOf(r) ==
    <<Pos(SymbolOrder, r.symbol), Pos(ExchangeOrder, r.exchange), r.day, r.tod>>

KeyLE(a, b) ==
    LET x == KeyOf(a)
        y == KeyOf(b)
    IN \/ x[1] < y[1]
       \/ x[1] = y[1] /\ x[2] < y[2]
       \/ x[1] = y[1] /\ x[2] = y[2] /\ x[3] < y[3]
       \/ x[1] = y[1] /\ x[2] = y[2] /\ x[3] = y[3] /\ x[4] <= y[4]

\* sort_values(by=key, kind="mergesort"): rows of equal key keep their order
RECURSIVE StableSort(_)
StableSort(q) ==
    IF q = <<>> THEN <<>>
    ELSE LET rest == StableSort(SubSeq(q, 1, Len(q) - 1))
             x == q[Len(q)]
         IN SelectSeq(rest, LAMBDA e : KeyLE(e, x)) \o <<x>>
            \o SelectSeq(rest, LAMBDA e : ~KeyLE(e, x))

\* mutant: no row is dropped
DropDuplicates_KeepAll(q) == q

\* mutant: keep="first"
DropDuplicates_KeepFirst(q) ==
    LET keep == {i \in 1..Len(q) :
                   \A j \in 1..(i - 1) : KeyOf(q[j]) # KeyOf(q[i])}
        F[i \in 0..Len(q)] ==
            IF i = 0 THEN <<>>
            ELSE IF i \in keep THEN Append(F[i - 1], q[i]) ELSE F[i - 1]
    IN F[Len(q)]

\* drop_duplicates(subset=key, keep="last")
DropDuplicates(q) ==
    LET keep == {i \in 1..Len(q) :
                   \A j \in (i + 1)..Len(q) : KeyOf(q[j]) # KeyOf(q[i])}
        F[i \in 0..Len(q)] ==
            IF i = 0 THEN <<>>
            ELSE IF i \in keep THEN Append(F[i - 1], q[i]) ELSE F[i - 1]
    IN F[Len(q)]

SameGroup(a, b) == a.symbol = b.symbol /\ a.exchange = b.exchange

\* the rows of q[i]'s (symbol, exchange) group up to and including q[i]
GroupUpTo(q, i) == SelectSeq(SubSeq(q, 1, i), LAMBDA r : SameGroup(r, q[i]))

RECURSIVE SumClose(_, _, _)
SumClose(g, lo, hi) == IF lo > hi THEN 0 ELSE g[lo].close + SumClose(g, lo + 1, hi)

\* mutant: the window one row too long
Rolling_WindowPlusOne(g, window) ==
    LET n == IF Len(g) < window + 1 THEN Len(g) ELSE window + 1
    IN [sum |-> SumClose(g, Len(g) - n + 1, Len(g)), n |-> n]

\* rolling(window, min_periods=1).mean() at the last row of g
Rolling(g, window) ==
    LET n == IF Len(g) < window THEN Len(g) ELSE window
    IN [sum |-> SumClose(g, Len(g) - n + 1, Len(g)), n |-> n]

\* mutant: a previous close of 0 is divided by
DailyReturn_NoZeroGuard(g) ==
    IF Len(g) < 2
    THEN [null |-> TRUE, num |-> 0, den |-> 1]
    ELSE [null |-> FALSE, num |-> g[Len(g)].close - g[Len(g) - 1].close,
          den |-> g[Len(g) - 1].close]

\* prev_close = shift(1) in the group; daily_return where it is there and not 0
DailyReturn(g) ==
    IF Len(g) < 2 \/ g[Len(g) - 1].close = 0
    THEN [null |-> TRUE, num |-> 0, den |-> 1]
    ELSE [null |-> FALSE, num |-> g[Len(g)].close - g[Len(g) - 1].close,
          den |-> g[Len(g) - 1].close]

\* mutant: rows without a daily_return are left out
Features_DropNullReturn(q) ==
    SelectSeq(StableSort([i \in 1..Len(q) |->
        [symbol |-> q[i].symbol, exchange |-> q[i].exchange, day |-> q[i].day,
         tod |-> q[i].tod, close |-> q[i].close,
         daily_return |-> DailyReturn(GroupUpTo(q, i)),
         ma_5 |-> Rolling(GroupUpTo(q, i), Ma5Window),
         ma_20 |-> Rolling(GroupUpTo(q, i), Ma20Window)]]),
        LAMBDA r : ~r.daily_return.null)

\* the feature columns, the projection, and the final sort (keys are unique)
Features(q) ==
    StableSort([i \in 1..Len(q) |->
        [symbol |-> q[i].symbol, exchange |-> q[i].exchange, day |-> q[i].day,
         tod |-> q[i].tod, close |-> q[i].close,
         daily_return |-> DailyReturn(GroupUpTo(q, i)),
         ma_5 |-> Rolling(GroupUpTo(q, i), Ma5Window),
         ma_20 |-> Rolling(GroupUpTo(q, i), Ma20Window)]])

\* return pd.DataFrame()
EmptyResult == [result |-> "return", rows |-> <<>>, dropped |-> 0]

\* mutant: a missing required column raises
OnMissing_Raise(f) == [result |-> "KeyError", rows |-> <<>>, dropped |-> 0]

\* if missing: warn and return an empty table
OnMissing(f) == EmptyResult

\* mutant: the dtype of trading_date is not looked at
DateContractHolds_Always(f) == TRUE

\* is_datetime64_any_dtype(df["trading_date"])
DateContractHolds(f) == f.date_dt

\* build_stock_price_daily(silver_df) on the values
BuildGoldTable(f) ==
    IF ~f.present \/ Len(f.rows) = 0 \/ f.cols = {}
    THEN EmptyResult
    ELSE IF ~(RequiredCols \subseteq f.cols)
    THEN OnMissing(f)
    ELSE IF ~DateContractHolds(f)
    THEN [result |-> "ValueError", rows |-> <<>>, dropped |-> 0]
    ELSE LET kept == SelectSeq(f.rows, LAMBDA r : r.ok)
             sorted == StableSort(kept)
             dedup == DropDuplicates(sorted)
         IN IF \E i \in 1..Len(dedup) : dedup[i].frac
            THEN [result |-> "TypeError", rows |-> <<>>,
                  dropped |-> Len(sorted) - Len(dedup)]
            ELSE [result |-> "return", rows |-> Features(dedup),
                  dropped |-> Len(sorted) - Len(dedup)]

InitBuild ==
    /\ InitRun
    /\ run_date = 1
    /\ vd = NoValidation /\ cn = NoClean /\ ft = NoFetch
    /\ bd \in {[phase |-> "ready", input |-> f,
                out |-> [result |-> "-", rows |-> <<>>, dropped |-> 0]] : f \in BInputs}

BuildCall ==
    /\ bd.phase = "ready"
    /\ bd' = [bd EXCEPT !.phase = "done", !.out = BuildGoldTable(bd.input)]
    /\ UNCHANGED <<pc, raw_df, silver_df, gold_df, df, wr, ub, store, ret, exit_code,
                   uid, run_date, trace, hist, runs, vd, cn, ft>>

NextBuild == BuildCall

SpecBuild == InitBuild /\ [][NextBuild]_vars

\* ---------------------------------------------------------------- clean_stock_price on values
\* A raw table is [present, cols, date_col_dt, rows]; a row holds the cells
\* symbol, date (the cell of the column `time` or `date`), close and volume.
\* A cell is Null, Str(text), Num(v, frac) or Ts(day, tod).
RawCols == {"time", "symbol", "close", "volume"}

RawRow(symbol, date, close, volume) ==
    [symbol |-> symbol, date |-> date, close |-> close, volume |-> volume]

\* a sound row, and rows with one thing wrong or unusual each
RawRows ==
    {RawRow(Str("A"), Ts(d, 0), Num(c, FALSE), Num(2, FALSE)) : d \in 1..MaxDay, c \in 1..2}
    \cup {RawRow(Str("A"), Ts(1, 1), Num(1, FALSE), Num(2, FALSE)),
          RawRow(Null, Ts(1, 0), Num(1, FALSE), Num(2, FALSE)),
          RawRow(Str("A"), Null, Num(1, FALSE), Num(2, FALSE)),
          RawRow(Str("A"), Str("x"), Num(1, FALSE), Num(2, FALSE)),
          RawRow(Str("A"), Ts(1, 0), Null, Num(2, FALSE)),
          RawRow(Str("A"), Ts(1, 0), Str("x"), Num(2, FALSE)),
          RawRow(Str("A"), Ts(1, 0), Str("2"), Str("2")),
          RawRow(Str("A"), Ts(1, 0), Num(1, FALSE), Num(-1, FALSE)),
          RawRow(Str("A"), Ts(1, 0), Num(1, FALSE), Null),
          RawRow(Str("A"), Ts(1, 0), Num(1, FALSE), Str("x"))}

RawTable(cols, date_col_dt, rows) ==
    [present |-> TRUE, cols |-> cols, date_col_dt |-> date_col_dt, rows |-> rows]

\* a datetime64 column holds timestamps and NaT only
RawInputs ==
    {[present |-> FALSE, cols |-> {}, date_col_dt |-> FALSE, rows |-> <<>>]}
    \cup {RawTable(RawCols, FALSE, q) :
             q \in UNION {[1..n -> RawRows] : n \in 0..MaxRows}}
    \cup {RawTable(RawCols, TRUE, q) :
             q \in UNION {[1..n -> {r \in RawRows : r.date.k \in {"ts", "null"}}] :
                            n \in 0..MaxRows}}
    \cup {RawTable(RawCols \ {c}, TRUE,
                   <<RawRow(Str("A"), Ts(1, 0), Num(1, FALSE), Num(2, FALSE))>>) :
             c \in RawCols}

\* pd.to_datetime(cell, errors="coerce")
ToDatetime(cell) == IF cell.k = "ts" THEN cell ELSE Null

\* .dt.normalize() of one value
NormalizeCell(cell) == IF cell.k = "ts" THEN Ts(cell.day, 0) ELSE cell

\* pd.to_numeric(cell, errors="coerce"): numbers stay, numerals are read
ToNumeric(cell) ==
    IF cell.k = "num" THEN cell
    ELSE IF cell = Str("2") THEN Num(2, FALSE)
    ELSE Null

\* mutant: negative volumes are kept
CleanVolume_KeepNegative(cell) ==
    IF ToNumeric(cell) = Null THEN Num(0, FALSE) ELSE ToNumeric(cell)

\* to_numeric(...).fillna(0), then volume < 0 set to 0
CleanVolume(cell) ==
    LET v == IF ToNumeric(cell) = Null THEN Num(0, FALSE) ELSE ToNumeric(cell)
    IN IF v.v < 0 THEN Num(0, FALSE) ELSE v

DefaultExchange == "HOSE"

\* clean_stock_price(df) on the values: [result, rows]
CleanTable(t) ==
    IF ~t.present \/ Len(t.rows) = 0 \/ t.cols = {}
    THEN [result |-> "return", rows |-> <<>>]
    ELSE IF t.cols \cap {"time", "date"} = {}
    THEN [result |-> "ValueError", rows |-> <<>>]
    ELSE IF ~t.date_col_dt /\ \E i \in 1..Len(t.rows) : ToDatetime(t.rows[i].date) = Null
    THEN [result |-> "ValueError", rows |-> <<>>]
    ELSE IF "volume" \notin t.cols
    THEN [result |-> "AttributeError", rows |-> <<>>]
    ELSE IF ~({"symbol", "close"} \subseteq t.cols)
    THEN [result |-> "KeyError", rows |-> <<>>]
    ELSE LET typed == [i \in 1..Len(t.rows) |->
                        [symbol |-> t.rows[i].symbol,
                         trading_date |-> NormalizeCell(ToDatetime(t.rows[i].date)),
                         close_price |-> ToNumeric(t.rows[i].close),
                         volume |-> CleanVolume(t.rows[i].volume),
                         exchange |-> DefaultExchange]]
         IN [result |-> "return",
             rows |-> SelectSeq(typed, LAMBDA r :
                         r.symbol # Null /\ r.trading_date # Null /\ r.close_price # Null)]

InitClean ==
    /\ InitRun
    /\ run_date = 1
    /\ vd = NoValidation /\ bd = NoBuild /\ ft = NoFetch
    /\ cn \in {[phase |-> "ready", input |-> t, out |-> [result |-> "-", rows |-> <<>>]] :
                 t \in RawInputs}

CleanCall ==
    /\ cn.phase = "ready"
    /\ cn' = [cn EXCEPT !.phase = "done", !.out = CleanTable(cn.input)]
    /\ UNCHANGED <<pc, raw_df, silver_df, gold_df, df, wr, ub, store, ret, exit_code,
                   uid, run_date, trace, hist, runs, vd, bd, ft>>

NextClean == CleanCall

SpecClean == InitClean /\ [][NextClean]_vars

\* ---------------------------------------------------------------- fetch_hose_stock_prices
\* The fetch as a loop over the listed symbols.  A symbol is its characters;
\* ft is [phase, dates_ok, has_time, symbols, i, retry, tries, results, result]:
\* i is the position in symbols, tries[j] the outcomes of the history requests
\* made for symbols[j] so far, results the positions whose frame was appended.
MaxSymbols == 2

MAX_RETRY == 3

\* symbols the listing may hold: two stocks, a lower-case one, a warrant code
Listed ==
    { <<"V", "N", "M">>, <<"f", "p", "t">>, <<"C", "V", "N", "M", "1">> }

SymbolLists == UNION {[1..n -> Listed] : n \in 0..MaxSymbols}

UpperCase(ch) == IF ch = "f" THEN "F" ELSE IF ch = "p" THEN "P" ELSE IF ch = "t" THEN "T" ELSE ch

AlnumUpper == {"V", "N", "M", "F", "P", "T", "C", "1"}

\* re.fullmatch(r"[A-Z0-9]{3}", symbol.strip().upper())
IsValidStockSymbol(sym) ==
    /\ sym # <<>>
    /\ Len(sym) = 3
    /\ \A k \in 1..Len(sym) : UpperCase(sym[k]) \in AlnumUpper

\* what one vn.quote.history call can do
HistoryOutcomes == {"rows", "empty", "RetryError", "rate limit", "error"}

FetchInputs ==
    {[phase |-> "ready", dates_ok |-> d, has_time |-> t, symbols |-> q, i |-> 1,
      retry |-> 0, tries |-> [j \in 1..Len(q) |-> <<>>], results |-> <<>>,
      result |-> "-"] : d \in BOOLEAN, t \in BOOLEAN, q \in SymbolLists}

FetchUnchanged ==
    UNCHANGED <<pc, raw_df, silver_df, gold_df, df, wr, ub, store, ret, exit_code,
                uid, run_date, trace, hist, runs, vd, bd, cn>>

\* _normalize_date_str of start_date and end_date
FetchEnter ==
    /\ ft.phase = "ready"
    /\ ft' = IF ft.dates_ok THEN [ft EXCEPT !.phase = "listing"]
             ELSE [ft EXCEPT !.phase = "done", !.result = "ValueError"]
    /\ FetchUnchanged

\* fetch_hose_symbols(), then Vnstock().stock(...): either may raise
ListSymbols ==
    /\ ft.phase = "listing"
    /\ \/ ft' = [ft EXCEPT !.phase = "done", !.result = "Exception"]
       \/ ft' = IF ft.symbols = <<>>
                THEN [ft EXCEPT !.phase = "done", !.result = "return"]
                ELSE [ft EXCEPT !.phase = "symbol"]
    /\ FetchUnchanged

\* the head of the for loop: an invalid symbol is passed over, a valid one
\* starts its while loop with retry = 0
NextSymbol ==
    /\ ft.phase = "symbol" /\ ft.i <= Len(ft.symbols)
    /\ ft' = IF IsValidStockSymbol(ft.symbols[ft.i])
             THEN [ft EXCEPT !.phase = "loop", !.retry = 0]
             ELSE [ft EXCEPT !.i = @ + 1]
    /\ FetchUnchanged

\* mutant: the loop runs once more
RetryLoopTest_OneMore(retry) == retry <= MAX_RETRY

\* while retry < MAX_RETRY
RetryLoopTest(retry) == retry < MAX_RETRY

\* except ...: log and break; then sleep and go to the next symbol
AfterError(f) == [f EXCEPT !.phase = "symbol", !.i = @ + 1]

\* one pass of the while loop: a history request and what follows it
HistoryRequest ==
    /\ ft.phase = "loop" /\ RetryLoopTest(ft.retry)
    /\ \E o \in HistoryOutcomes :
         LET f == [ft EXCEPT !.tries[ft.i] = Append(@, o)]
         IN ft' = IF o = "rows"
                  THEN [f EXCEPT !.results = Append(@, ft.i), !.phase = "symbol", !.i = @ + 1]
                  ELSE IF o = "empty" THEN [f EXCEPT !.phase = "symbol", !.i = @ + 1]
                  ELSE IF o = "rate limit" THEN [f EXCEPT !.retry = @ + 1]
                  ELSE AfterError(f)
    /\ FetchUnchanged

\* the while test fails: the symbol is left behind
RetriesSpent ==
    /\ ft.phase = "loop" /\ ~RetryLoopTest(ft.retry)
    /\ ft' = [ft EXCEPT !.phase = "symbol", !.i = @ + 1]
    /\ FetchUnchanged

\* after the for loop: nothing fetched, or no `time` column, or the frame
FetchFinish ==
    /\ ft.phase = "symbol" /\ ft.i > Len(ft.symbols)
    /\ ft' = [ft EXCEPT !.phase = "done",
                        !.result = IF ft.results = <<>> THEN "return"
                                   ELSE IF ~ft.has_time THEN "KeyError"
                                   ELSE "return"]
    /\ FetchUnchanged

InitFetch ==
    /\ InitRun
    /\ run_date = 1
    /\ vd = NoValidation /\ bd = NoBuild /\ cn = NoClean
    /\ ft \in FetchInputs

NextFetch ==
    \/ FetchEnter \/ ListSymbols \/ NextSymbol \/ HistoryRequest \/ RetriesSpent
    \/ FetchFinish

SpecFetch == InitFetch /\ [][NextFetch]_vars

\* ---------------------------------------------------------------------------
\* One run of run_daily_pipeline() from its call to its end, the loop of
\* fetch_hose_stock_prices running inside the FETCH stage.
\* ---------------------------------------------------------------------------

\* raw_df = fetch_hose_stock_prices(start_date=..., end_date=..., run_date=...)
FetchCall ==
    /\ pc = "FETCH" /\ ft = NoFetch
    /\ ft' \in FetchInputs
    /\ FetchUnchanged

\* the return or raise statement of fetch_hose_stock_prices: its locals are gone,
\* what is left is the exception or whether any symbol gave rows
FetchLeave ==
    /\ pc = "FETCH" /\ ft.phase = "done"
    /\ ft' = [phase |-> "left", result |-> ft.result, fetched |-> ft.results # <<>>]
    /\ FetchUnchanged

\* the orchestrator takes the frame, or the exception in its except branch
FetchReturn ==
    /\ pc = "FETCH" /\ ft.phase = "left"
    /\ IF ft.result # "return"
       THEN /\ Goto("FETCH", "raise")
            /\ UNCHANGED raw_df
       ELSE \E f \in IF ~ft.fetched THEN {EmptyDF} ELSE FetchResults :
              /\ raw_df' = f
              /\ Goto("FETCH", OutcomeOf(f))
    /\ ft' = NoFetch
    /\ UNCHANGED <<silver_df, gold_df, df, wr, ub, store, ret, uid, run_date,
                   hist, runs, vd, bd, cn>>

NextRunOnce ==
    \/ RunDailyPipeline
    \/ FetchCall \/ FetchEnter \/ ListSymbols \/ NextSymbol \/ HistoryRequest
    \/ RetriesSpent \/ FetchFinish \/ FetchLeave \/ FetchReturn
    \/ SaveRaw \/ SaveRawReturn \/ Clean \/ ValidateSilver \/ SaveSilver
    \/ SaveSilverReturn \/ BuildGold \/ ValidateGold \/ SaveGold \/ SaveGoldReturn
    \/ BeginPartition \/ PutAttempt \/ PartitionDone \/ UploadFailed
    \/ BeginMarker \/ MarkerDone \/ ReturnUploaded

\* The process is one thread that runs whenever it can: every call it makes
\* returns or raises, and every sleep ends.
SpecRunOnce == Init /\ [][NextRunOnce]_vars /\ WF_vars(NextRunOnce)

\* ---------------------------------------------------------------- properties
\* a writer call has been made and its outcome not yet taken by the caller
CallPending == pc \in {"direct", "SAVE_RAW.called", "SAVE_SILVER.called", "SAVE_GOLD.called"}

MarkerTried == \E k \in tried : IsMarker(k)

DaysOf(f) == {f.rows[i].day : i \in 1..Len(f.rows)} \ {NaT}

\* the partition keys among the keys put so far by the call
PartsWritten == SelectSeq(written, LAMBDA k : ~IsMarker(k))

\* C1: with max_retries >= 1 and a backend that fails k times and then accepts,
\* upload_bytes returns after exactly k+1 put_object calls when k < max_retries,
\* and raises RuntimeError after exactly max_retries calls when k >= max_retries;
\* it never makes more than max_retries calls and none after its outcome.
C1_RetryBound ==
    /\ ub.result = "ok" =>
         /\ ub.k0 < ub.max_retries
         /\ ub.puts = ub.k0 + 1
         /\ ub.key \in Keys(store)
    /\ (ub.result = "RuntimeError" /\ ub.max_retries >= 1) =>
         /\ ub.k0 >= ub.max_retries
         /\ ub.puts = ub.max_retries
    /\ ub.result = "running" =>
         /\ ub.puts < ub.max_retries
         /\ ub.puts + ub.fails = ub.k0
    /\ ub.result \in {"ok", "RuntimeError", "TypeError"} => ~ENABLED PutAttempt

C1_Witness ==
    /\ call.fn = "upload_bytes"
    /\ ub.result = "ok" /\ ub.max_retries = 3 /\ ub.k0 = 2 /\ ub.puts = 3

\* C2: the stages of a run are started in the order FETCH, SAVE_RAW, CLEAN,
\* VALIDATE_SILVER, SAVE_SILVER, BUILD_GOLD, VALIDATE_GOLD, SAVE_GOLD, each once,
\* each only when every earlier stage has completed without error and nothing
\* of an earlier stage is still running; DONE follows SAVE_GOLD, or an empty
\* result.
InStageOrder(t) ==
    /\ Len(t) < Len(StageOrder)
    /\ \A i \in 1..Len(t) : t[i].stage = StageOrder[i]

C2_StageOrder ==
    [][ /\ InStageOrder(trace')
        /\ Len(trace') # Len(trace) =>
             /\ Len(trace') = Len(trace) + 1
             /\ pc = trace'[Len(trace')].stage
             /\ \A i \in 1..Len(trace) : trace[i].outcome = "ok"
             /\ wr.fn = "none" /\ ub.result = "idle" /\ ret.kind = "none"
        /\ (pc' = "DONE" /\ pc # "DONE") =>
             /\ trace' # <<>>
             /\ \/ /\ Len(trace') = Len(StageOrder) - 1
                   /\ \A i \in 1..Len(trace') : trace'[i].outcome = "ok"
                \/ trace'[Len(trace')].outcome = "empty"
      ]_vars

C2_Witness ==
    /\ pc = "DONE" /\ Len(trace) = 8
    /\ trace[8] = [stage |-> "SAVE_GOLD", outcome |-> "ok"]

\* C3: when a stage's operation raises, the run is FAILED with exit status 1, the
\* raising stage is the last one run, no stage was run twice, nothing can
\* happen afterwards, and DONE is not reached.
C3_FailFast ==
    /\ \A i \in 1..Len(trace) :
         trace[i].outcome = "raise" =>
            /\ i = Len(trace)
            /\ pc = "FAILED" /\ exit_code = 1
            /\ ~ENABLED Next
    /\ \A i, j \in 1..Len(trace) : trace[i].stage = trace[j].stage => i = j
    /\ pc = "FAILED" => trace # <<>> /\ trace[Len(trace)].outcome = "raise"
    /\ exit_code = 1 => pc = "FAILED"

C3_Witness ==
    /\ pc = "FAILED" /\ exit_code = 1
    /\ Len(trace) = 5 /\ trace[5] = [stage |-> "SAVE_SILVER", outcome |-> "raise"]
    /\ store # {}

\* C4: an empty result at FETCH or BUILD_GOLD ends the run at DONE with exit
\* status 0 and nothing runs afterwards; after an empty fetch the store holds
\* nothing; after an empty build the raw and silver objects and markers are in
\* the store, no gold object was attempted and neither VALIDATE_GOLD nor
\* SAVE_GOLD ran.
C4_EmptyTerminal ==
    \A i \in 1..Len(trace) :
       trace[i].outcome = "empty" =>
          /\ i = Len(trace)
          /\ pc = "DONE" /\ exit_code = 0
          /\ ~ENABLED Next
          /\ trace[i].stage \in {"FETCH", "BUILD_GOLD"}
          /\ trace[i].stage = "FETCH" => i = 1 /\ store = {} /\ tried = {}
          /\ trace[i].stage = "BUILD_GOLD" =>
               /\ i = 6
               /\ \A d \in DaysOf(raw_df) : JsonKey("bronze", d) \in Keys(store)
               /\ SuccessKey("bronze", run_date) \in Keys(store)
               /\ \A d \in DaysOf(silver_df) :
                     \E o \in store : /\ o.key.base = "silver" /\ o.key.date = d
                                      /\ o.key.file = "part"
                                      /\ o.body = PartRows(silver_df.rows, d)
               /\ SuccessKey("silver", run_date) \in Keys(store)
               /\ \A k \in Keys(store) \cup tried : k.base # "gold"

C4_Witness ==
    /\ pc = "DONE" /\ exit_code = 0
    /\ Len(trace) = 6 /\ trace[6] = [stage |-> "BUILD_GOLD", outcome |-> "empty"]
    /\ DaysOf(silver_df) # {}

\* C5: within one write, put_object of the _SUCCESS marker is attempted only
\* when every partition of the written table has been uploaded by that write;
\* a write that raised with a partition missing attempted no marker.
C5_MarkerAfterPartitions ==
    MarkerTried =>
       /\ call.fn \in {"save_raw", "save_silver"}
       /\ \A d \in DaysOf(call.df) :
             \E i \in 1..Len(written) :
                /\ written[i].date = d /\ ~IsMarker(written[i])
                /\ written[i] \in Keys(store)
       /\ Len(PartsWritten) = Cardinality(DaysOf(call.df))
       /\ wr.fn # "none" => wr.phase = "marker" /\ wr.parts = <<>>

C5_Witness ==
    /\ MarkerTried
    /\ call.fn = "save_silver"
    /\ Cardinality(DaysOf(call.df)) = 2
    /\ Len(written) = 3

\* C6: every successful write of a non-empty table by the raw, the
\* silver or the gold save returns the keys it wrote, in write order, with
\* exactly one _SUCCESS marker among them, and that marker is in the store.
\* Stated for tables with at least one dated row.
C6_MarkerEveryLayer ==
    (/\ ret.kind = "return"
     /\ ret.fn \in {"save_raw", "save_silver", "save_gold"}
     /\ call.df.present /\ ~IsEmpty(call.df) /\ DaysOf(call.df) # {}) =>
        /\ ret.keys = written
        /\ Cardinality({i \in 1..Len(ret.keys) : IsMarker(ret.keys[i])}) = 1
        /\ SuccessKey(ret.keys[Len(ret.keys)].base, run_date) \in Keys(store)

\* C7: when upload_bytes exhausts its retries inside a write, the write raises
\* RuntimeError at once: no key list is returned, nothing more is attempted, no
\* marker is attempted after a failed partition, the store is left as it was
\* (the objects put before stay), and no object ever leaves the store.
C7_AbortOnExhaustion ==
    /\ [](ret.kind = "raise" => (wr = NoWriter /\ ub = NoUpload /\ ret.keys = <<>>))
    /\ [][ /\ (wr.fn # "none" /\ ub.result = "RuntimeError") =>
                /\ ret'.kind = "raise" /\ ret'.exc = "RuntimeError"
                /\ ret'.fn = wr.fn /\ ret'.keys = <<>>
                /\ wr' = NoWriter /\ ub' = NoUpload
                /\ store' = store /\ tried' = tried /\ written' = written
                /\ \A i \in 1..Len(written) : written[i] \in Keys(store')
                /\ store0 \subseteq store'
                /\ wr.phase = "parts" => ~MarkerTried
           /\ \A o \in store :
                o \in store' \/ (ub.result = "running" /\ ub.key = o.key)
         ]_vars

C7_Witness ==
    /\ pc = "SAVE_SILVER.called"
    /\ ret.kind = "raise" /\ ret.exc = "RuntimeError" /\ ret.fn = "save_silver"
    /\ Cardinality(DaysOf(call.df)) = 2
    /\ Len(written) = 1 /\ written[1] \in Keys(store)
    /\ store0 # {} /\ store0 \subseteq store
    /\ ~MarkerTried

\* the columns of the table as upload_dataframe_to_s3 receives it
ColumnsSeen(c) ==
    IF c.fn = "save_silver" /\ FirstCandidate(c.df.cols) # "none"
    THEN Rename(c.df, FirstCandidate(c.df.cols)).cols
    ELSE c.df.cols

\* C8: a write of a non-empty table through upload_dataframe_to_s3 with
\* required_columns supplied and one of them missing raises ValueError with no
\* put_object attempted and the store as it was.
C8_RequiredColumns ==
    (/\ CallPending
     /\ call.fn \in {"upload_dataframe_to_s3", "save_silver", "save_gold"}
     /\ call.df.present /\ ~IsEmpty(call.df)
     /\ call.required # {}
     /\ ~(call.required \subseteq ColumnsSeen(call))) =>
        /\ ret.kind = "raise" /\ ret.exc = "ValueError"
        /\ wr = NoWriter /\ ub = NoUpload
        /\ tried = {} /\ written = <<>> /\ store = store0

C8_Witness ==
    /\ pc = "direct" /\ call.fn = "upload_dataframe_to_s3"
    /\ call.required = {"trading_date", "symbol"}
    /\ "symbol" \notin call.df.cols
    /\ call.pcol \in call.df.dt
    /\ DaysOf(call.df) # {}
    /\ ret.kind = "raise"

\* C9 (as claimed): a partitioned write whose partition column is missing, is
\* not a date type or holds a value with a non-zero time of day is rejected
\* before any upload, and no write alters the partition column of the table it
\* was handed.
HasTimeOfDay(f) == \E i \in 1..Len(f.rows) : f.rows[i].tod # 0

IsPartitionedWrite(c) ==
    c.fn \in {"upload_dataframe_to_s3", "save_raw", "save_silver", "save_gold"}

Rejected ==
    /\ ret.kind = "raise"
    /\ wr = NoWriter /\ ub = NoUpload
    /\ tried = {} /\ written = <<>> /\ store = store0

C9_PureDateOrRejected ==
    (IsPartitionedWrite(call) /\ call.df.present /\ ~IsEmpty(call.df)) =>
       /\ (/\ CallPending /\ ret.kind # "none"
           /\ \/ call.pcol \notin call.df.cols
              \/ call.pcol \notin call.df.dt
              \/ HasTimeOfDay(call.df)) => Rejected
       /\ df = call.df

\* C9 (amended): a partitioned write whose partition column is missing or is
\* not a datetime type is rejected before any upload.  A value with a non-zero
\* time of day is not a reason to reject: the row is written under its
\* calendar day.  upload_dataframe_to_s3, the raw save and the gold save leave
\* the table they were handed as it was and write its rows as they are (the raw
\* save formats them as dates in the JSON body only); the silver save
\* normalizes the column to midnight, in the caller's table when the column is
\* already named trading_date, and writes the normalized rows.
C9_DatetimeOrRejected ==
    (IsPartitionedWrite(call) /\ call.df.present /\ ~IsEmpty(call.df)) =>
       /\ (/\ CallPending
           /\ \/ call.pcol \notin call.df.cols
              \/ call.pcol \notin call.df.dt) => Rejected
       /\ (CallPending /\ ret.kind = "raise" /\ tried = {}) =>
            \/ call.pcol \notin call.df.cols
            \/ call.pcol \notin call.df.dt
            \/ ~(call.required \subseteq ColumnsSeen(call))
            \/ call.fmt \notin {"parquet", "json"}
       /\ call.fn # "save_silver" => df = call.df
       /\ call.fn = "save_silver" =>
            df = IF call.pcol = "trading_date" /\ call.pcol \in call.df.dt
                 THEN NormalizeColumn(call.df) ELSE call.df
       /\ \A o \in store :
            (o.key \in tried /\ ~IsMarker(o.key)) =>
               o.body = IF call.fn \in {"save_raw", "save_silver"}
                        THEN NormalizeRows(PartRows(call.df.rows, o.key.date))
                        ELSE PartRows(call.df.rows, o.key.date)

C9_Witness ==
    /\ pc = "direct" /\ call.fn = "upload_dataframe_to_s3"
    /\ ret.kind = "return" /\ Len(ret.keys) = 2
    /\ \A i \in 1..Len(call.df.rows) : call.df.rows[i].tod # 0
    /\ \A o \in store : HasTimeOfDay([rows |-> o.body])

\* C10: a write of a zero-row or absent table by upload_dataframe_to_s3 or by
\* the raw, silver or gold save attempts no upload, neither of a partition nor
\* of a marker, and returns an empty list or None.
C10_EmptyWriteReturns ==
    (/\ CallPending /\ IsPartitionedWrite(call)
     /\ (~call.df.present \/ IsEmpty(call.df))) =>
        /\ tried = {} /\ written = <<>> /\ store = store0
        /\ wr = NoWriter /\ ub = NoUpload
        /\ ret.kind = "return" /\ ret.keys = <<>>

\* the object of key k in the store
ObjectAt(k) == CHOOSE o \in store : o.key = k

\* C11: a successful upload_dataframe_to_s3 of a non-empty table returns one
\* key per distinct calendar date of the partition column, each of the shape
\* base_path/partition_col=date/unique file name, in ascending date order; the
\* object of a key holds exactly the rows of its date, and every row of the
\* table is in exactly one of the objects.
C11_OneObjectPerDate ==
    (/\ pc = "direct" /\ call.fn = "upload_dataframe_to_s3"
     /\ ret.kind = "return"
     /\ call.df.present /\ ~IsEmpty(call.df)) =>
        /\ Len(ret.keys) = Cardinality(DaysOf(call.df))
        /\ \A j \in 1..Len(ret.keys) :
              /\ ret.keys[j] \in Keys(store)
              /\ ret.keys[j].base = "direct" /\ ret.keys[j].col = call.pcol
              /\ ret.keys[j].file = "part"
              /\ ret.keys[j].date \in DaysOf(call.df)
              /\ ObjectAt(ret.keys[j]).body = PartRows(call.df.rows, ret.keys[j].date)
        /\ \A i, j \in 1..Len(ret.keys) :
              /\ i < j => ret.keys[i].date < ret.keys[j].date
              /\ i # j => ret.keys[i] # ret.keys[j]
        /\ \A i \in 1..Len(call.df.rows) :
              Cardinality({j \in 1..Len(ret.keys) :
                             call.df.rows[i] \in
                               {ObjectAt(ret.keys[j]).body[n] :
                                  n \in 1..Len(ObjectAt(ret.keys[j]).body)}}) = 1

\* the data objects of a layer for a date
DataObjects(s, base, d) ==
    {o \in s : ~IsMarker(o.key) /\ o.key.base = base /\ o.key.date = d}

\* this step is a put_object of a data object that the backend accepted
DataPutAccepted ==
    /\ ub.result = "running" /\ ub'.result = "ok"
    /\ ~IsMarker(ub.key)

\* C12 (as claimed): in every layer each data object is put under a key the
\* store did not hold, no data object of the store is replaced or removed, and
\* each accepted put adds one to the data objects of its layer and date.
C12_AppendOnly ==
    [][ /\ \A o \in store : ~IsMarker(o.key) => o \in store'
        /\ DataPutAccepted =>
             /\ ub.key \notin Keys(store)
             /\ Cardinality(DataObjects(store', ub.key.base, ub.key.date)) =
                  Cardinality(DataObjects(store, ub.key.base, ub.key.date)) + 1
      ]_vars

\* C12 (amended): the parquet objects of the silver and gold layers are put
\* under keys the store did not hold, are never replaced or removed, and each
\* accepted put adds one to the parquet objects of its layer and date.  The raw
\* layer puts its JSON object under the fixed key of the date: the store holds
\* at most one raw object per date, and a later raw save of that date replaces
\* its body.  No key ever leaves the store.
C12_AppendParquet ==
    [][ /\ \A o \in store : o.key \in Keys(store')
        /\ \A o \in store : o.key.file = "part" => o \in store'
        /\ \A o1, o2 \in store : o1.key = o2.key => o1 = o2
        /\ (DataPutAccepted /\ ub.key.file = "part") =>
             /\ ub.key \notin Keys(store)
             /\ Cardinality(DataObjects(store', ub.key.base, ub.key.date)) =
                  Cardinality(DataObjects(store, ub.key.base, ub.key.date)) + 1
        /\ (DataPutAccepted /\ ub.key.file = "stock_price.json") =>
             /\ ub.key = JsonKey(ub.key.base, ub.key.date)
             /\ store' = {o \in store : o.key # ub.key}
                            \cup {[key |-> ub.key, body |-> ub.body]}
             /\ Cardinality(DataObjects(store', ub.key.base, ub.key.date)) = 1
      ]_vars

C12_Witness ==
    /\ runs = 1 /\ ret.kind = "return"
    /\ \E o1, o2 \in store :
          /\ o1 # o2
          /\ o1.key.file = "part" /\ o2.key.file = "part"
          /\ o1.key.base = o2.key.base /\ o1.key.date = o2.key.date
    /\ Cardinality(DataObjects(store, "bronze", 1)) <= 1

\* ---- the validator
\* the checks a validation call of the dataset goes through, the empty test first
ChecksOf(d, c) == <<EmptyCheck>> \o (IF ~d.present \/ IsEmpty(d) THEN <<>> ELSE CheckList(c, d))

\* what the i-th of them finds
Finding(d, c, i) ==
    IF i = 1 THEN (IF ~d.present \/ IsEmpty(d) THEN "violation" ELSE "pass")
    ELSE Eval(ChecksOf(d, c)[i], c, d)

\* the place of a check in the order of the code
Rank(kind) ==
    IF kind = "empty" THEN 0
    ELSE IF kind = "missing" THEN 1
    ELSE IF kind = "partition" THEN 2
    ELSE IF kind \in {"nullable", "type"} THEN 3
    ELSE IF kind \in {"pk_null", "pk_dup"} THEN 4
    ELSE 5

ValidatedBy(fn) == vd.phase = "done" /\ vd.fn = fn

\* C13: in strict mode validate_dataframe_schema makes its checks in the order
\* empty, missing columns, partition columns, nullability and type per column,
\* primary key, quality; it raises at the first check that finds something,
\* having evaluated no later check, and returns only when no check finds
\* anything.
C13_StrictFailFast ==
    (ValidatedBy("validate_dataframe_schema") /\ vd.strict) =>
       LET chs == ChecksOf(vd.df, vd.schema)
           found == {i \in 1..Len(chs) : Finding(vd.df, vd.schema, i) # "pass"}
       IN /\ \A i, j \in 1..Len(chs) : i < j => Rank(chs[i].kind) <= Rank(chs[j].kind)
          /\ found = {} => vd.out = [result |-> "return", log |-> <<>>, n |-> Len(chs)]
          /\ found # {} =>
               /\ vd.out.result \in {"ValueError", "KeyError", "TypeError"}
               /\ vd.out.n \in found
               /\ \A i \in found : vd.out.n <= i
               /\ vd.out.result = "ValueError" => vd.out.log = <<chs[vd.out.n]>>

C13_Witness ==
    /\ ValidatedBy("validate_dataframe_schema") /\ vd.strict
    /\ vd.out.result = "ValueError"
    /\ vd.out.log # <<>> /\ vd.out.log[1].kind = "pk_dup"
    /\ vd.out.n < Len(ChecksOf(vd.df, vd.schema))

\* C14: in permissive mode validate_dataframe_schema on a non-empty dataset
\* evaluates every check, logs each violation and returns; it never raises.
C14_PermissiveNeverRaises ==
    (/\ ValidatedBy("validate_dataframe_schema") /\ ~vd.strict
     /\ vd.df.present /\ ~IsEmpty(vd.df)) =>
       /\ vd.out.result = "return"
       /\ vd.out.n = Len(ChecksOf(vd.df, vd.schema))

\* C15: when strict validation of a dataset against a contract returns,
\* permissive validation of the same dataset against the same contract returns
\* too and logs no violation.
C15_StrictImpliesPermissive ==
    (/\ ValidatedBy("validate_dataframe_schema") /\ vd.strict
     /\ vd.out.result = "return") =>
       ValidateDataframeSchema(vd.df, vd.schema, FALSE) =
          [result |-> "return", log |-> <<>>, n |-> Len(ChecksOf(vd.df, vd.schema))]

C15_Witness ==
    /\ ValidatedBy("validate_dataframe_schema") /\ vd.strict
    /\ vd.out.result = "return"
    /\ Len(vd.df.rows) = 2 /\ vd.schema.primary_key # <<>>
    /\ Len(vd.schema.columns) = 2

\* C16: on a zero-row or absent dataset validation raises in strict mode and
\* in permissive mode warns and returns with no other check made, in
\* validate_dataframe_schema and in validate_stock_price_daily alike; with
\* strict=False validate_stock_price_daily never raises for a violation.
C16_EmptyRaisesOrWarns ==
    /\ (vd.phase = "done" /\ (~vd.df.present \/ IsEmpty(vd.df))) =>
          IF vd.strict THEN vd.out.result = "ValueError"
          ELSE vd.out.result = "return" /\ vd.out.n = 1
    /\ (ValidatedBy("validate_stock_price_daily") /\ ~vd.strict) =>
          vd.out.result # "ValueError"

\* the contract columns declared nullable=false that hold a null in the dataset
NullInNonNullable(d, c) ==
    {i \in 1..Len(c.columns) :
        /\ ~c.columns[i].nullable
        /\ c.columns[i].name \in d.cols
        /\ AnyNull(d, c.columns[i].name)}

NullabilityLogged(log) == {log[i].col : i \in {j \in 1..Len(log) : log[j].kind = "nullable"}}

\* C17: when a column declared nullable=false holds a null, strict validation
\* raises and permissive validation logs the violation and returns; a
\* nullable=false column without a null gets no nullability violation.
C17_NonNullable ==
    (/\ ValidatedBy("validate_dataframe_schema")
     /\ vd.df.present /\ ~IsEmpty(vd.df)) =>
       /\ NullInNonNullable(vd.df, vd.schema) # {} =>
            IF vd.strict THEN vd.out.result # "return"
            ELSE /\ vd.out.result = "return"
                 /\ \A i \in NullInNonNullable(vd.df, vd.schema) :
                       vd.schema.columns[i].name \in NullabilityLogged(vd.out.log)
       /\ \A i \in 1..Len(vd.schema.columns) :
            i \notin NullInNonNullable(vd.df, vd.schema) =>
               vd.schema.columns[i].name \notin NullabilityLogged(vd.out.log)

\* C18: a dataset passes strict validation against a contract with a primary
\* key only if no primary-key column holds a null and no two rows agree on all
\* primary-key columns.
C18_PrimaryKey ==
    (/\ ValidatedBy("validate_dataframe_schema") /\ vd.strict
     /\ vd.out.result = "return"
     /\ vd.schema.primary_key # <<>>) =>
       /\ \A col \in Range(vd.schema.primary_key) :
             /\ col \in vd.df.cols
             /\ \A i \in 1..Len(vd.df.rows) : vd.df.rows[i][col] # Null
       /\ \A i, j \in 1..Len(vd.df.rows) :
             i # j => \E col \in Range(vd.schema.primary_key) :
                         vd.df.rows[i][col] # vd.df.rows[j][col]

C18_Witness ==
    /\ ValidatedBy("validate_dataframe_schema") /\ vd.strict
    /\ vd.out.result = "return"
    /\ vd.schema.primary_key = <<"symbol", "trading_date">>
    /\ Len(vd.df.rows) = 2
    /\ vd.df.rows[1]["symbol"] = vd.df.rows[2]["symbol"]

\* ---- feature builder
Built == bd.phase = "done" /\ bd.out.result = "return"

\* C19: whatever cleaned table build_stock_price_daily accepts, no two rows of
\* its output have the same symbol, exchange and trading_date.
C19_UniqueTriples ==
    Built =>
        \A i, j \in 1..Len(bd.out.rows) :
            i # j =>
                <<bd.out.rows[i].symbol, bd.out.rows[i].exchange,
                  bd.out.rows[i].day, bd.out.rows[i].tod>>
                # <<bd.out.rows[j].symbol, bd.out.rows[j].exchange,
                    bd.out.rows[j].day, bd.out.rows[j].tod>>

\* the input held rows of equal key, and the output still has rows
C19_Witness ==
    /\ Built
    /\ bd.out.dropped > 0
    /\ bd.out.rows # <<>>
    /\ \E i, j \in 1..Len(bd.input.rows) :
          /\ i < j
          /\ bd.input.rows[i].ok /\ bd.input.rows[j].ok
          /\ KeyOf(bd.input.rows[i]) = KeyOf(bd.input.rows[j])
          /\ bd.input.rows[i].close # bd.input.rows[j].close

\* trading_date order
Earlier(x, y) == x.day < y.day \/ (x.day = y.day /\ x.tod < y.tod)

\* the output rows of r's group that are no later than r and have fewer than
\* window rows of the group between them and r, r included
Trailing(r, window) ==
    LET G == {x \in Range(bd.out.rows) : x.symbol = r.symbol /\ x.exchange = r.exchange}
    IN {x \in G :
          /\ x = r \/ Earlier(x, r)
          /\ Cardinality({y \in G : Earlier(x, y) /\ (y = r \/ Earlier(y, r))}) < window}

RECURSIVE TotalClose(_)
TotalClose(S) ==
    IF S = {} THEN 0
    ELSE LET x == CHOOSE y \in S : TRUE IN x.close + TotalClose(S \ {x})

IsMeanOf(m, S) == m.n > 0 /\ m.sum * Cardinality(S) = TotalClose(S) * m.n

\* C20: in the output, ma_5 of a row is the mean of close_price over the row
\* and up to 4 rows before it in its (symbol, exchange) group in date order,
\* ma_20 the same with up to 19 rows before it; the first row of a group has
\* ma_5 = ma_20 = close_price, and no moving average is null.
C20_MovingAverages ==
    Built =>
        \A k \in 1..Len(bd.out.rows) :
            LET r == bd.out.rows[k]
            IN /\ IsMeanOf(r.ma_5, Trailing(r, 5))
               /\ IsMeanOf(r.ma_20, Trailing(r, 20))
               /\ Trailing(r, 1) = Trailing(r, 20) =>
                     /\ r.ma_5.sum = r.close * r.ma_5.n
                     /\ r.ma_20.sum = r.close * r.ma_20.n

\* a group of more than 20 rows whose first close, a 3 among 1s, has left both
\* windows of the last row, and a first row whose averages are its close
C20_Witness ==
    /\ Built
    /\ Len(bd.out.rows) > 20
    /\ bd.out.rows[1].close = 3
    /\ bd.out.rows[1].ma_5 = [sum |-> 3, n |-> 1]
    /\ bd.out.rows[1].ma_20 = [sum |-> 3, n |-> 1]
    /\ \A k \in 1..Len(bd.out.rows) : bd.out.rows[k].symbol = bd.out.rows[1].symbol
    /\ bd.out.rows[Len(bd.out.rows)].ma_5 = [sum |-> 5, n |-> 5]
    /\ bd.out.rows[Len(bd.out.rows)].ma_20 = [sum |-> 20, n |-> 20]
    /\ bd.input.rows[1].day > 20

\* the output rows of r's group that come before r
Preceding(r) ==
    {x \in Range(bd.out.rows) :
        x.symbol = r.symbol /\ x.exchange = r.exchange /\ Earlier(x, r)}

\* the latest of them
PrevRow(r) == CHOOSE x \in Preceding(r) : \A y \in Preceding(r) : y = x \/ Earlier(y, x)

\* C21: in the output, daily_return of a row is null exactly when the row is the
\* first of its (symbol, exchange) group or the close_price of the row before it
\* in the group is 0; otherwise it is (close_price - prev_close) / prev_close,
\* prev_close being the close_price of the row before it after deduplication.
C21_DailyReturn ==
    Built =>
        \A k \in 1..Len(bd.out.rows) :
            LET r == bd.out.rows[k]
            IN IF Preceding(r) = {} \/ PrevRow(r).close = 0
               THEN r.daily_return.null
               ELSE /\ ~r.daily_return.null
                    /\ r.daily_return.den # 0
                    /\ r.daily_return.num * PrevRow(r).close
                       = (r.close - PrevRow(r).close) * r.daily_return.den

\* day 1 was given twice and its last close, 0, is the one kept: day 2 has a
\* null return after a close of 0, day 3 the return (1 - 3) / 3
C21_Witness ==
    /\ Built
    /\ bd.out.dropped = 1
    /\ Len(bd.out.rows) >= 3
    /\ bd.out.rows[1].close = 0 /\ bd.out.rows[1].daily_return.null
    /\ bd.out.rows[2].close = 3 /\ bd.out.rows[2].daily_return.null
    /\ bd.out.rows[3].daily_return = [null |-> FALSE, num |-> -2, den |-> 3]

\* the input was a table with rows, the required columns and a datetime
\* trading_date: the builder went past its guards
BuiltFromRows ==
    /\ Built
    /\ bd.input.present /\ bd.input.rows # <<>>
    /\ RequiredCols \subseteq bd.input.cols /\ bd.input.date_dt

\* the input rows a cleaned table is made of: close_price and volume are numbers
CleanedAt == {i \in 1..Len(bd.input.rows) : bd.input.rows[i].ok}

SameTriple(a, b) ==
    a.symbol = b.symbol /\ a.exchange = b.exchange /\ a.day = b.day /\ a.tod = b.tod

\* the last input row of i's key
LastOfKey(i) ==
    CHOOSE j \in CleanedAt :
        /\ SameTriple(bd.input.rows[j], bd.input.rows[i])
        /\ \A h \in CleanedAt : SameTriple(bd.input.rows[h], bd.input.rows[i]) => h <= j

Reprojected ==
    BTable(IF bd.out.rows = <<>> THEN {} ELSE RequiredCols, TRUE,
           [k \in 1..Len(bd.out.rows) |->
               BRow(bd.out.rows[k].symbol, bd.out.rows[k].exchange, bd.out.rows[k].day,
                    bd.out.rows[k].tod, bd.out.rows[k].close, TRUE)])

\* C23: building features is idempotent: the builder run on its own output,
\* projected onto the cleaned columns, returns the same rows with the same
\* daily_return, ma_5 and ma_20.
C23_Idempotent ==
    Built =>
        /\ BuildGoldTable(Reprojected).result = "return"
        /\ BuildGoldTable(Reprojected).rows = bd.out.rows

\* the first run reordered the input, dropped a duplicate and gave a return
\* that is not null: the second run had all of that to redo
C23_Witness ==
    /\ BuiltFromRows
    /\ bd.out.dropped = 1
    /\ bd.input.rows[1].day > 2
    /\ Len(bd.out.rows) >= 3
    /\ ~bd.out.rows[3].daily_return.null
    /\ BuildGoldTable(Reprojected).rows = bd.out.rows
    /\ BuildGoldTable(Reprojected).dropped = 0

\* C24: build_stock_price_daily returns an empty table and does not raise when
\* its input is absent or has no rows, and when a required column is missing;
\* in both cases whatever the type of trading_date is.
C24_EmptyOrMissingReturnsEmpty ==
    (/\ bd.phase = "done"
     /\ \/ ~bd.input.present
        \/ bd.input.rows = <<>>
        \/ ~(RequiredCols \subseteq bd.input.cols))
    => bd.out.result = "return" /\ bd.out.rows = <<>>

\* a table with a row, without the exchange column and with a trading_date that
\* is not a datetime came back as an empty table
C24_Witness ==
    /\ bd.phase = "done"
    /\ bd.input.present /\ bd.input.rows # <<>>
    /\ "exchange" \notin bd.input.cols
    /\ ~bd.input.date_dt
    /\ bd.out = EmptyResult

HasRows == bd.phase = "done" /\ bd.input.present /\ bd.input.rows # <<>>

\* C25: a violated precondition of the builder is fatal: for an input with rows
\* that lacks a required column, or whose trading_date is not a date type, or
\* whose trading_date has a time-of-day, the builder raises and returns no table.
C25_PreconditionFatal ==
    (/\ HasRows
     /\ \/ ~(RequiredCols \subseteq bd.input.cols)
        \/ ~bd.input.date_dt
        \/ \E i \in 1..Len(bd.input.rows) : bd.input.rows[i].tod # 0)
    => bd.out.result # "return"

\* C25, as the code has it: for an input with rows and every required column
\* whose trading_date is not a datetime type the builder raises ValueError and
\* returns no table; and the builder never changes a trading_date: every row it
\* returns has the trading_date, time-of-day included, of an input row.
C25_DtypeFatal ==
    /\ (HasRows /\ RequiredCols \subseteq bd.input.cols /\ ~bd.input.date_dt)
          => bd.out.result = "ValueError" /\ bd.out.rows = <<>>
    /\ Built =>
          \A k \in 1..Len(bd.out.rows) :
              \E i \in 1..Len(bd.input.rows) : SameTriple(bd.out.rows[k], bd.input.rows[i])

\* the builder raised on a trading_date that is not a datetime
C25_Witness ==
    /\ HasRows
    /\ RequiredCols \subseteq bd.input.cols
    /\ ~bd.input.date_dt
    /\ bd.out.result = "ValueError"

\* ---- clean_stock_price on values
Cleaned == cn.phase = "done" /\ cn.out.result = "return"

\* C26: every row of a non-empty clean_stock_price output has a trading_date
\* that is a date at midnight, a symbol, a trading_date and a close_price that
\* are not null, and a volume that is a number >= 0.
C26_SilverInvariant ==
    Cleaned =>
        \A k \in 1..Len(cn.out.rows) :
            LET r == cn.out.rows[k]
            IN /\ r.trading_date.k = "ts" /\ r.trading_date.tod = 0
               /\ r.symbol # Null
               /\ r.close_price.k = "num"
               /\ r.volume.k = "num" /\ r.volume.v >= 0

\* rows with a time-of-day and with a negative, a missing or an unreadable
\* volume went in and came out in order
C26_Witness ==
    /\ Cleaned
    /\ Len(cn.out.rows) = Len(cn.input.rows)
    /\ \E i \in 1..Len(cn.input.rows) :
          \/ cn.input.rows[i].date.k = "ts" /\ cn.input.rows[i].date.tod # 0
          \/ cn.input.rows[i].volume = Num(-1, FALSE)
    /\ \E i \in 1..Len(cn.input.rows) :
          /\ cn.input.rows[i].volume \in {Num(-1, FALSE), Null, Str("x")}
          /\ cn.out.rows[i].volume = Num(0, FALSE)

\* C27: the cleaned table has at most one row for a symbol, exchange and
\* trading_date: raw rows of one key are deduplicated, the last one winning.
C27_OneRowPerKey ==
    Cleaned =>
        \A i, j \in 1..Len(cn.out.rows) :
            i # j =>
                <<cn.out.rows[i].symbol, cn.out.rows[i].exchange, cn.out.rows[i].trading_date>>
                # <<cn.out.rows[j].symbol, cn.out.rows[j].exchange, cn.out.rows[j].trading_date>>

\* ---- the pipeline and the validations
StagePassed(s) == \E i \in 1..Len(trace) : trace[i] = [stage |-> s, outcome |-> "ok"]

\* C28: in a pipeline run, a silver data object or the silver marker is in the
\* store only if the validation of the cleaned table returned normally earlier
\* in the run, and a gold data object only if the validation of the feature
\* table returned normally earlier in the run.
C28_ValidatedBeforeStored ==
    pc # "direct" =>
        \A k \in Keys(store) \cup tried :
            /\ k.base = "silver" => StagePassed("VALIDATE_SILVER")
            /\ k.base = "gold" => StagePassed("VALIDATE_GOLD")

\* the silver marker and a gold object are stored, after both validations
C28_Witness ==
    /\ pc # "direct"
    /\ SuccessKey("silver", run_date) \in Keys(store)
    /\ \E k \in Keys(store) : k.base = "gold" /\ ~IsMarker(k)
    /\ StagePassed("VALIDATE_SILVER") /\ StagePassed("VALIDATE_GOLD")

\* ---- markers over repeated writes
LayerBase(fn) ==
    IF fn = "save_raw" THEN "bronze" ELSE IF fn = "save_silver" THEN "silver" ELSE "gold"

\* the last writer call was a layer write of a table with rows, and it is over
LayerWriteOver ==
    /\ pc = "direct" /\ ret.kind # "none"
    /\ call.fn \in {"save_raw", "save_silver", "save_gold"}
    /\ call.df.present /\ ~IsEmpty(call.df)

\* C29: over repeated writes for one run date, the _SUCCESS marker of a layer
\* is in the store only if the latest write of the layer uploaded all its
\* partitions; it is absent when that write failed, and a completed write
\* leaves it present.
C29_MarkerTracksLastWrite ==
    LayerWriteOver =>
        (SuccessKey(LayerBase(call.fn), run_date) \in Keys(store)
            <=> ret.kind = "return")

\* ---- declared types date, timestamp and unknown
KnownTypes == {"string", "float", "int", "bigint", "date", "timestamp"}

\* the dataset column is of a date/time type
IsDatetimeColumn(col) == col = "trading_date" /\ vd.df.date_dtype = "datetime64"

HasTimeOfDayIn(col) ==
    \E i \in 1..Len(vd.df.rows) : vd.df.rows[i][col].k = "ts" /\ vd.df.rows[i][col].tod # 0

TypeLogged == {vd.out.log[i].col : i \in {j \in 1..Len(vd.out.log) : vd.out.log[j].kind = "type"}}

\* what the claim says of a declared column
TypeFaulty(cs) ==
    IF cs.type = "date" THEN ~IsDatetimeColumn(cs.name) \/ HasTimeOfDayIn(cs.name)
    ELSE IF cs.type = "timestamp" THEN ~IsDatetimeColumn(cs.name)
    ELSE TRUE

\* C30: for a column declared date the validator reports a violation exactly
\* when the dataset column is not of a date/time type or holds a value with a
\* time-of-day; for a column declared timestamp exactly when it is not of a
\* date/time type; for a declared type it does not know, always.  A permissive
\* run logs it, a strict run does not return.
C30_DateTimestampUnknown ==
    (/\ ValidatedBy("validate_dataframe_schema")
     /\ vd.df.present /\ ~IsEmpty(vd.df)) =>
       \A i \in 1..Len(vd.schema.columns) :
          LET cs == vd.schema.columns[i]
          IN (/\ cs.name \in vd.df.cols
              /\ cs.type \in {"date", "timestamp"} \/ cs.type \notin KnownTypes)
             => /\ cs.name \in TypeLogged => TypeFaulty(cs)
                /\ (TypeFaulty(cs) /\ ~vd.strict) => cs.name \in TypeLogged
                /\ (TypeFaulty(cs) /\ vd.strict) => vd.out.result # "return"

\* a permissive run logged a midnight violation for a datetime column declared
\* date that holds a time-of-day
C30_Witness ==
    /\ ValidatedBy("validate_dataframe_schema")
    /\ ~vd.strict
    /\ vd.df.present /\ "trading_date" \in vd.df.cols
    /\ vd.df.date_dtype = "datetime64"
    /\ HasTimeOfDayIn("trading_date")
    /\ \E i \in 1..Len(vd.schema.columns) :
          vd.schema.columns[i].name = "trading_date" /\ vd.schema.columns[i].type = "date"
    /\ "trading_date" \in TypeLogged

\* ---- the tables of a run and the steps that change them
\* C31: validation and storage leave the table in flight unchanged: silver_df is
\* what CLEAN produced when it is handed to SAVE_SILVER and BUILD_GOLD, gold_df
\* is what BUILD_GOLD produced when it is handed to SAVE_GOLD, and no writer
\* changes a value of the table its caller handed it.
C31_TablesUntouched ==
    [][ /\ silver_df' # silver_df => pc = "CLEAN"
        /\ gold_df' # gold_df => pc = "BUILD_GOLD"
        /\ call' # call => df' = call'.df
      ]_vars

\* C31, as the code has it: in a pipeline run silver_df changes only in CLEAN
\* and gold_df only in BUILD_GOLD, and the writers are handed exactly these
\* tables; upload_dataframe_to_s3, the raw save and the gold save leave their
\* caller's table as it was; save_silver_stock_price sets trading_date to
\* midnight in its caller's table when the column has that name, which changes
\* no value of a table CLEAN produced.
C31_PipelineTablesUntouched ==
    [][ /\ silver_df' # silver_df => pc = "CLEAN"
        /\ gold_df' # gold_df => pc = "BUILD_GOLD"
        /\ pc' = "SAVE_SILVER.called" => call'.df = silver_df /\ df' = silver_df
        /\ pc' = "SAVE_GOLD.called" => call'.df = gold_df /\ df' = gold_df
        /\ (call' # call /\ call'.fn # "save_silver") => df' = call'.df
        /\ (call' # call /\ call'.fn = "save_silver") =>
              df' = IF call'.pcol = "trading_date" /\ call'.pcol \in call'.df.dt
                    THEN NormalizeColumn(call'.df) ELSE call'.df
      ]_vars

\* a run ended after both saves with a silver table of rows of different days,
\* the later day first, that went through the silver writer as CLEAN left it
C31_Witness ==
    /\ pc = "DONE" /\ Len(trace) = 8
    /\ Len(silver_df.rows) = 2
    /\ silver_df.rows[1].day > silver_df.rows[2].day
    /\ \A o \in store : o.key.base = "silver" /\ ~IsMarker(o.key) =>
          \E i \in 1..2 : o.body = <<silver_df.rows[i]>>
    /\ \E o \in store : o.key.base = "silver" /\ ~IsMarker(o.key)
    /\ \E o \in store : o.key.base = "gold"

\* ---- fetch_hose_stock_prices
LastTry(j) == ft.tries[j][Len(ft.tries[j])]

\* C33: each symbol's history request is made at most MAX_RETRY times; only a
\* rate-limit failure is followed by another request; any other failure, or a
\* RetryError, ends the symbol; a symbol whose requests all fail is passed over
\* and does not fail the fetch, which goes on to the next symbol and returns
\* the frames of the symbols that succeeded.
C33_FetchRetry ==
    ft.phase # "none" =>
       /\ \A j \in 1..Len(ft.symbols) :
            /\ Len(ft.tries[j]) <= MAX_RETRY
            /\ \A k \in 1..(Len(ft.tries[j]) - 1) : ft.tries[j][k] = "rate limit"
            /\ j \in Range(ft.results) <=> (ft.tries[j] # <<>> /\ LastTry(j) = "rows")
            /\ (j < ft.i /\ IsValidStockSymbol(ft.symbols[j])) =>
                  /\ ft.tries[j] # <<>>
                  /\ LastTry(j) = "rate limit" => Len(ft.tries[j]) = MAX_RETRY
            /\ j > ft.i => ft.tries[j] = <<>>
       /\ (ft.phase = "done" /\ \E j \in 1..Len(ft.symbols) : ft.tries[j] # <<>>) =>
            /\ ft.i = Len(ft.symbols) + 1
            /\ \/ ft.result = "return"
               \/ ft.result = "KeyError" /\ ~ft.has_time /\ ft.results # <<>>

\* the first symbol was rate-limited MAX_RETRY times and left behind, the second
\* gave rows, and the fetch returned the second one's frame
C33_Witness ==
    /\ ft.phase = "done" /\ ft.result = "return"
    /\ Len(ft.symbols) = 2
    /\ ft.tries[1] = [k \in 1..MAX_RETRY |-> "rate limit"]
    /\ ft.tries[2] = <<"rate limit", "rows">>
    /\ ft.results = <<2>>

\* C32: every run terminates: whatever the fetch source and the storage backend
\* answer, a run that was started eventually stands at DONE or FAILED.
C32_RunTerminates == (pc = "FETCH") ~> (pc \in {"DONE", "FAILED"})

\* a run that went through every stage up to the gold save, where the upload
\* spent its attempts, and ended FAILED
C32_Witness ==
    /\ pc = "FAILED" /\ exit_code = 1
    /\ Len(trace) = 8
    /\ trace[8] = [stage |-> "SAVE_GOLD", outcome |-> "raise"]
    /\ SuccessKey("silver", run_date) \in Keys(store)
    /\ ft = NoFetch

====
